---------------------------- MODULE Spec2Model ----------------------------
(***************************************************************************)
(* State-machine model of the kronthor admin pages.                        *)
(*                                                                         *)
(* The remote data store is shared; every browser session ("client") runs  *)
(* its own copy of a page component and keeps its own React state.  A      *)
(* handler is an async function: it runs up to an `await` on a store call, *)
(* the store executes the call atomically, and the handler resumes with    *)
(* the response.  While a session has one handler in flight, one action    *)
(* of the model is "the store executes the awaited call and the handler    *)
(* runs on to its next await (or to its end)".                             *)
(*                                                                         *)
(*   em*  : ExerciseMusclePage   src/src/app/(admin)/exercise-muscle       *)
(*   ex*  : ExercisePage         src/unnamed/part_002                      *)
(*   eq*  : EquipmentPage        src/unnamed/part_000                      *)
(*   ms*  : MuscleSubgroupPage   src/src/app/(admin)/muscle-subgroup       *)
(*   mu*  : MuscleCatalogPage    src/src/app/(admin)/muscle                *)
(*   pg*  : paginated / totalPages as a function of the filtered list      *)
(*   fl*  : filtered as a function of the rows and the search text         *)
(*   rl*  : the row mappers' name of a joined relation, per page           *)
(***************************************************************************)
EXTENDS Integers, Sequences, FiniteSets, TLC

VARIABLES
    \* ---- store table exercise_muscle, and the sessions of ExerciseMusclePage
    emRows,            \* rows of exercise_muscle: [id, exercise_id, muscle_id, role]
    emNextId,          \* the serial the store gives the next inserted row
    emRecords,         \* records        (useState, per session)
    emEditing,         \* editing
    emOpen,            \* open
    emToDelete,        \* toDelete
    emSubmitting,      \* submitting
    emSaving,          \* saving
    emSelExercise,     \* selectedExerciseId
    emSelPrimary,      \* selectedPrimaryMuscles
    emSelSecondary,    \* selectedSecondaryMuscles
    emPc,              \* where the session's handler in flight is awaiting
    emCall,            \* what the handler in flight closed over: values, editing, relations
    emToast,           \* the toasts raised by the session's last handler step
    emOps,             \* how many store-writing handlers the sessions have started
    emQuery,           \* query: the text of the search box, a sequence of characters
    emPage,            \* page
    emIdCap,           \* the last id the store hands out in the run; Init fixes it
    emSecondCall,      \* relations of a second submitMulti awaiting the store, or <<>>
    \* ---- store tables of the exercise page, and the sessions of ExercisePage
    exExercises,       \* ids of the rows of table exercise
    exJoin,            \* exJoin[table][<<exercise_id, value>>]: number of such join rows
    exNextId,          \* the id the store gives the next inserted exercise
    exRecords,         \* records
    exEditing,         \* editing
    exOpen,            \* open
    exToDelete,        \* toDelete
    exSelected,        \* selectedExerciseId
    exPc,              \* where the session's handler in flight is awaiting
    exCall,            \* what the handler in flight closed over: values, editing, data.id
    exSync,            \* exSync[c][table]: where that syncRelation call is awaiting
    exFailed,          \* the calls of the Promise.all in flight that returned an error
    exFaults,          \* how many store calls of the exercise page have failed so far
    exOps,             \* how many store-writing handlers the sessions have started
    \* ---- store table equipment, and the one session of EquipmentPage
    eqRows,            \* rows of equipment: [id, name]
    eqNextId,
    eqItems,           \* items
    eqEditing,         \* editing
    eqOpen,            \* open
    eqToDelete,        \* toDelete
    eqLoading,         \* loading
    eqPc,
    eqCall,
    eqError,           \* the `error` of the last store response the session read
    \* ---- store table muscle_subgroup, and the one session of MuscleSubgroupPage
    msRows,            \* rows of muscle_subgroup: [id, name]
    msNextId,
    msRecords,         \* records
    msEditing,         \* editing
    msOpen,            \* open
    msToDelete,        \* toDelete
    msLoad,            \* the mount effect's loadSubgroups call: [st, data]
    msSubmit,          \* the submit in flight: [st, editing, name, error, data]
    msDel,             \* the onDelete in flight: [st, toDelete]
    msFaults,          \* how many store calls of the page have failed so far
    msOverlap,         \* a handler was started while another call was in flight
    msOps,             \* how many submit / onDelete runs have started
    \* ---- store table muscle, and the one session of MuscleCatalogPage
    muRows,            \* rows of muscle: [id, name]
    muNextId,
    muRecords,         \* records
    muEditing,         \* editing
    muOpen,            \* open
    muToDelete,        \* toDelete
    muPc,              \* "load", "idle", "write" or "delete"
    muCall,            \* what the handler in flight closed over
    muFaults,          \* how many store calls of the page have failed so far
    muToast,           \* the last toast shown
    muOps,             \* how many submit / onDelete runs have started
    muErrors,          \* formState.errors: the fields the resolver rejected
    \* ---- inputs and results of the pagination and filter functions
    pgF,               \* filtered, the list to paginate
    pgSize,            \* the page size
    pgPage,            \* page, 0 before the first render
    pgSlice,           \* paginated
    pgTotal,           \* totalPages
    pgKind,            \* the component rendered: an admin page or ExercisesCatalog
    pgFooter,          \* the numbers of "Mostrando {start}-{end} de {length}"
    flKind,            \* the page whose filter is applied
    flRows,            \* its loaded rows
    flQuery,           \* the text of its search box
    flResult,          \* filtered
    flDone,            \* the render has happened
    rlKind,            \* the page whose row mapper is applied
    rlValue,           \* the related side of a row as the store returned it
    rlName,            \* the related name the mapped row displays
    rlDone             \* the mapper has run

emVars == <<emRows, emNextId, emRecords, emEditing, emOpen, emToDelete, emSubmitting,
            emSaving, emSelExercise, emSelPrimary, emSelSecondary, emPc, emCall, emToast,
            emOps, emQuery, emPage, emIdCap, emSecondCall>>
exVars == <<exExercises, exJoin, exNextId, exRecords, exEditing, exOpen, exToDelete,
            exSelected, exPc, exCall, exSync, exFailed, exFaults, exOps>>
eqVars == <<eqRows, eqNextId, eqItems, eqEditing, eqOpen, eqToDelete, eqLoading,
            eqPc, eqCall, eqError>>
msVars == <<msRows, msNextId, msRecords, msEditing, msOpen, msToDelete, msLoad, msSubmit,
            msDel, msFaults, msOverlap, msOps>>
muVars == <<muRows, muNextId, muRecords, muEditing, muOpen, muToDelete, muPc, muCall,
            muFaults, muToast, muOps, muErrors>>
fnVars == <<pgF, pgSize, pgPage, pgSlice, pgTotal, pgKind, pgFooter, flKind, flRows, flQuery, flResult,
            flDone, rlKind, rlValue, rlName, rlDone>>
restVars == <<msVars, muVars, fnVars>>
vars == <<emVars, exVars, eqVars, restVars>>

(***************************************************************************)
(* Bounds and small domains.                                               *)
(***************************************************************************)
MaxEmId == 2          \* the store hands out exercise_muscle ids up to MaxEmId
MaxExId == 2          \* the store hands out exercise ids 1..MaxExId
MaxEqId == 3          \* the store hands out equipment ids 1..MaxEqId
MaxFaults == 1        \* store calls of the exercise page that may fail in one run
MaxEmOps == 2         \* submit / submitMulti / onDelete runs of the exercise-muscle page
MaxExOps == 2         \* submit / onDelete runs of the exercise page

Clients == {1, 2}     \* browser sessions
Exercises == {"exA"}  \* exercise options of the exercise-muscle form
Muscles == {1, 2}     \* muscle options of the exercise-muscle form
Roles == {"primary", "secondary"}

\* ---------------------------------------------------------------- helpers
RECURSIVE SeqFilterOut(_, _)
\* prev.filter((item) => item.id !== id)
SeqFilterOut(s, id) ==
    IF s = <<>> THEN <<>>
    ELSE IF Head(s).id = id THEN SeqFilterOut(Tail(s), id)
         ELSE <<Head(s)>> \o SeqFilterOut(Tail(s), id)

SeqReplaceToHead(s, id, rec) == <<rec>> \o SeqFilterOut(s, id)

\* prev.map((item) => (item.id === id ? rec : item))
SeqReplace(s, id, rec) == [i \in 1..Len(s) |-> IF s[i].id = id THEN rec ELSE s[i]]

\* ------------------------------------------------- strings, filter, pages
\* A string is a sequence of characters.  String.prototype.toLowerCase on
\* the letters in use:
LowerChar(ch) ==
    CASE ch = "A" -> "a"
      [] ch = "B" -> "b"
      [] ch = "C" -> "c"
      [] ch = "L" -> "l"
      [] ch = "P" -> "p"
      [] OTHER -> ch

ToLower(s) == [i \in 1..Len(s) |-> LowerChar(s[i])]

\* String.prototype.trim: white space is dropped at both ends
RECURSIVE TrimStart(_)
TrimStart(s) == IF s # <<>> /\ Head(s) = " " THEN TrimStart(Tail(s)) ELSE s

RECURSIVE TrimEnd(_)
TrimEnd(s) == IF s # <<>> /\ s[Len(s)] = " " THEN TrimEnd(SubSeq(s, 1, Len(s) - 1)) ELSE s

Trim(s) == TrimEnd(TrimStart(s))

\* String.prototype.includes: q occurs in s as a run of consecutive characters
Includes(s, q) == \E i \in 0..(Len(s) - Len(q)) : SubSeq(s, i + 1, i + Len(q)) = q

\* Array.prototype.slice(start, end) for 0 <= start <= end
Slice(s, start, end) ==
    LET last == IF end < Len(s) THEN end ELSE Len(s)
    IN IF start >= last THEN <<>> ELSE SubSeq(s, start + 1, last)

\* Array.prototype.filter: the elements at the indices `kept`, in their order
SeqFilter(s, kept) ==
    [k \in 1..Cardinality(kept) |->
        s[CHOOSE i \in kept : Cardinality({j \in kept : j <= i}) = k]]

PAGE_SIZE == 10

\* Math.ceil(n / size) for n >= 0
CeilDiv(n, size) == (n + size - 1) \div size

\* totalPages = Math.max(1, Math.ceil(filtered.length / PAGE_SIZE))
TotalPages(filtered, size) == IF CeilDiv(Len(filtered), size) < 1 THEN 1 ELSE CeilDiv(Len(filtered), size)

PaginatedOverlapping(filtered, page, size) ==
    Slice(filtered, (page - 1) * size, (page - 1) * size + size + 1)

\* paginated: start = (page - 1) * PAGE_SIZE; filtered.slice(start, start + PAGE_SIZE)
Paginated(filtered, page, size) == Slice(filtered, (page - 1) * size, (page - 1) * size + size)

\* the display names mapRecord takes from the joined exercise, muscle and
\* group rows, and the role as text
ExerciseName(exercise_id) == <<"P", "r", "e", "s", "s">>
MuscleName(muscle_id) == IF muscle_id = 1 THEN <<"L", "a", "t">> ELSE <<"A", "b", "s">>
GroupName(muscle_id) == IF muscle_id = 1 THEN <<"B", "a", "c", "k">> ELSE <<"C", "o", "r", "e">>
RoleText(role) ==
    IF role = "primary" THEN <<"p", "r", "i", "m", "a", "r", "y">>
    ELSE <<"s", "e", "c", "o", "n", "d", "a", "r", "y">>

RECURSIVE SortById(_)
\* .order("id", { ascending: true }) over a set of rows with distinct ids
SortById(S) ==
    IF S = {} THEN <<>>
    ELSE LET m == CHOOSE r \in S : \A q \in S : r.id <= q.id
         IN <<m>> \o SortById(S \ {m})

RECURSIVE SeqWithout(_, _)
\* prev.filter(id => id !== x) on a list of plain ids
SeqWithout(s, x) ==
    IF s = <<>> THEN <<>>
    ELSE IF Head(s) = x THEN SeqWithout(Tail(s), x)
         ELSE <<Head(s)>> \o SeqWithout(Tail(s), x)

Range(s) == {s[i] : i \in 1..Len(s)}

(***************************************************************************)
(* ExerciseMusclePage  (src/src/app/(admin)/exercise-muscle/page.tsx)      *)
(***************************************************************************)
\* null for editing / toDelete; its id 0 is falsy, as `editing?.id` reads it
EmNull == [id |-> 0, exercise_id |-> "", muscle_id |-> 0, role |-> "primary"]

\* form values that pass the zod schema: a uuid, an integer, a role
EmFormValues == [exercise_id : Exercises, muscle_id : Muscles, role : Roles]

EmNoCall == [values |-> [exercise_id |-> "", muscle_id |-> 0, role |-> "primary"],
             editing |-> EmNull, relations |-> <<>>, toDelete |-> EmNull]

Triple(r) == <<r.exercise_id, r.muscle_id, r.role>>

\* mapRecord: the flat record of a joined row (the display names follow the ids)
MapRecord(item) ==
    [id |-> item.id, exercise_id |-> item.exercise_id,
     muscle_id |-> item.muscle_id, role |-> item.role]

MapRecords(s) == [i \in 1..Len(s) |-> MapRecord(s[i])]

\* the count query of checkDuplicate as the store evaluates it; this variant
\* leaves out the .neq("id", editing.id) filter
DuplicateCountNoSelfExclusion(rows, values, editing) ==
    Cardinality({r \in rows : Triple(r) = Triple(values)})

\* select("id", {count: "exact", head: true}).eq(exercise_id).eq(muscle_id).eq(role)
\* and, when editing?.id, .neq("id", editing.id)
DuplicateCount(rows, values, editing) ==
    Cardinality({r \in rows : /\ Triple(r) = Triple(values)
                              /\ (editing.id # 0 => r.id # editing.id)})

\* a checkDuplicate that lets the submission through when its query fails
CheckDuplicateFailOpen(error, count) == IF error THEN FALSE ELSE count > 0

\* checkDuplicate's return value: true on a query error, else count > 0
CheckDuplicate(error, count) == IF error THEN TRUE ELSE count > 0

\* a submit that goes on to the write whatever checkDuplicate returned
SubmitIgnoresDuplicate(duplicate) == "write"

\* submit: `if (await checkDuplicate(values)) { toast.error(...); return; }`
SubmitAfterCheck(duplicate) == IF duplicate THEN "idle" ELSE "write"

\* an update that reports success and changes no row
StoreUpdateLost(rows, id, values) == rows

\* update({exercise_id, muscle_id, role}).eq("id", id)
StoreUpdate(rows, id, values) ==
    {IF r.id = id
     THEN [id |-> id, exercise_id |-> values.exercise_id,
           muscle_id |-> values.muscle_id, role |-> values.role]
     ELSE r : r \in rows}

\* insert(relations).select(): the rows the store creates, ids from its serial
StoreInsertRows(nextId, relations) ==
    [i \in 1..Len(relations) |->
        [id |-> nextId + i - 1, exercise_id |-> relations[i].exercise_id,
         muscle_id |-> relations[i].muscle_id, role |-> relations[i].role]]

\* relations built from the primary selection alone
RelationsPrimaryOnly(exerciseId, primary, secondary) ==
    [i \in 1..Len(primary) |->
        [exercise_id |-> exerciseId, muscle_id |-> primary[i], role |-> "primary"]]

\* submitMulti's relations: the primary rows, then the secondary rows
Relations(exerciseId, primary, secondary) ==
    [i \in 1..Len(primary) |->
        [exercise_id |-> exerciseId, muscle_id |-> primary[i], role |-> "primary"]]
    \o
    [i \in 1..Len(secondary) |->
        [exercise_id |-> exerciseId, muscle_id |-> secondary[i], role |-> "secondary"]]

\* no modal is open: the table's row buttons and "Nuevo" can be clicked
EmNoModal(c) == ~emOpen[c] /\ emToDelete[c] = EmNull

\* filtered of ExerciseMusclePage: q = query.trim().toLowerCase(); a record is
\* kept if q is empty or one of its four display fields, lower-cased, includes q
EmFiltered(records, query) ==
    LET q == ToLower(Trim(query))
        keep(item) == \/ q = <<>>
                      \/ Includes(ToLower(ExerciseName(item.exercise_id)), q)
                      \/ Includes(ToLower(MuscleName(item.muscle_id)), q)
                      \/ Includes(ToLower(GroupName(item.muscle_id)), q)
                      \/ Includes(ToLower(RoleText(item.role)), q)
    IN SeqFilter(records, {i \in 1..Len(records) : keep(records[i])})

\* the rows of the table on screen: paginated
EmOnScreen(c) == Paginated(EmFiltered(emRecords[c], emQuery[c]), emPage[c], PAGE_SIZE)

ClampEffectSkipped(page, oldTotal, newTotal) == page

\* useEffect(() => setPage(prev => Math.min(prev, totalPages)), [totalPages]):
\* it runs after a render in which totalPages has changed
ClampEffect(page, oldTotal, newTotal) ==
    IF newTotal # oldTotal /\ newTotal < page THEN newTotal ELSE page

\* what the page effects make of `page` after a handler step that leaves the
\* query alone
EmPageEffects(c) ==
    /\ IF emRecords'[c] = emRecords[c]
         THEN UNCHANGED emPage
         ELSE emPage' = [emPage EXCEPT ![c] =
                 ClampEffect(@, TotalPages(EmFiltered(emRecords[c], emQuery[c]), PAGE_SIZE),
                             TotalPages(EmFiltered(emRecords'[c], emQuery[c]), PAGE_SIZE))]
    /\ UNCHANGED <<emQuery, emIdCap, emSecondCall>>

\* loadRecords: the mount effect's query resolves
EmLoadRecords(c) ==
    /\ emPc[c] = "load"
    /\ \E error \in BOOLEAN :
         IF error
         THEN /\ emToast' = [emToast EXCEPT ![c] = <<"No se pudieron cargar las relaciones">>]
              /\ UNCHANGED emRecords
         ELSE /\ emRecords' = [emRecords EXCEPT ![c] = MapRecords(SortById(emRows))]
              /\ emToast' = [emToast EXCEPT ![c] = <<>>]
    /\ emPc' = [emPc EXCEPT ![c] = "idle"]
    /\ UNCHANGED <<emRows, emNextId, emEditing, emOpen, emToDelete, emSubmitting, emSaving,
                   emSelExercise, emSelPrimary, emSelSecondary, emCall>>
    /\ UNCHANGED <<emOps, exVars, eqVars, restVars>>
    /\ EmPageEffects(c)

\* the row's pencil button: setEditing(item); setOpen(true)
EmOpenEdit(c) ==
    /\ EmNoModal(c)
    /\ \E item \in Range(EmOnScreen(c)) :
         emEditing' = [emEditing EXCEPT ![c] = item]
    /\ emOpen' = [emOpen EXCEPT ![c] = TRUE]
    /\ UNCHANGED <<emRows, emNextId, emRecords, emToDelete, emSubmitting, emSaving,
                   emSelExercise, emSelPrimary, emSelSecondary, emPc, emCall, emToast>>
    /\ UNCHANGED <<emOps, exVars, eqVars, restVars>>
    /\ EmPageEffects(c)

\* "Nuevo": setEditing(null); setOpen(true)
EmOpenNew(c) ==
    /\ EmNoModal(c)
    /\ emEditing' = [emEditing EXCEPT ![c] = EmNull]
    /\ emOpen' = [emOpen EXCEPT ![c] = TRUE]
    /\ UNCHANGED <<emRows, emNextId, emRecords, emToDelete, emSubmitting, emSaving,
                   emSelExercise, emSelPrimary, emSelSecondary, emPc, emCall, emToast>>
    /\ UNCHANGED <<emOps, exVars, eqVars, restVars>>
    /\ EmPageEffects(c)

\* "Cancelar" / onOpenChange(false): setOpen(false)
EmCloseDialog(c) ==
    /\ emOpen[c]
    /\ emOpen' = [emOpen EXCEPT ![c] = FALSE]
    /\ UNCHANGED <<emRows, emNextId, emRecords, emEditing, emToDelete, emSubmitting, emSaving,
                   emSelExercise, emSelPrimary, emSelSecondary, emPc, emCall, emToast>>
    /\ UNCHANGED <<emOps, exVars, eqVars, restVars>>
    /\ EmPageEffects(c)

\* the edit form is submitted with valid values: submit runs to its first await
EmSubmitStart(c) ==
    /\ emOpen[c] /\ emEditing[c] # EmNull
    /\ ~emSubmitting[c]
    /\ emPc[c] = "idle"
    /\ emOps < MaxEmOps
    /\ \E values \in EmFormValues :
         emCall' = [emCall EXCEPT ![c] = [values |-> values, editing |-> emEditing[c],
                                          relations |-> <<>>, toDelete |-> EmNull]]
    /\ emSubmitting' = [emSubmitting EXCEPT ![c] = TRUE]
    /\ emPc' = [emPc EXCEPT ![c] = "check"]
    /\ emToast' = [emToast EXCEPT ![c] = <<>>]
    /\ UNCHANGED <<emRows, emNextId, emRecords, emEditing, emOpen, emToDelete, emSaving,
                   emSelExercise, emSelPrimary, emSelSecondary>>
    /\ emOps' = emOps + 1
    /\ UNCHANGED <<exVars, eqVars, restVars>>
    /\ EmPageEffects(c)

\* a submit whose setSubmitting(false) is never reached
SubmitWithoutFinally(next) == TRUE

\* submitting after a step that takes submit to `next`: the finally block,
\* setSubmitting(false), runs when submit returns and not before
SubmitFinally(next) == next # "idle"

\* the count query resolves; submit returns (finally: setSubmitting(false)) or
\* goes on to its update / insert
EmCheckResolve(c) ==
    /\ emPc[c] = "check"
    /\ \E error \in BOOLEAN :
         LET count == DuplicateCount(emRows, emCall[c].values, emCall[c].editing)
             duplicate == CheckDuplicate(error, count)
             next == SubmitAfterCheck(duplicate)
         IN /\ emPc' = [emPc EXCEPT ![c] = next]
            /\ emCall' = [emCall EXCEPT ![c] = IF next = "idle" THEN EmNoCall ELSE @]
            /\ emSubmitting' = [emSubmitting EXCEPT ![c] = SubmitFinally(next)]
            /\ emToast' = [emToast EXCEPT ![c] =
                              (IF error THEN <<"No se pudo validar el registro">> ELSE <<>>)
                              \o (IF duplicate THEN <<"La combinacion ya existe">> ELSE <<>>)]
    /\ UNCHANGED <<emRows, emNextId, emRecords, emEditing, emOpen, emToDelete, emSaving,
                   emSelExercise, emSelPrimary, emSelSecondary>>
    /\ UNCHANGED <<emOps, exVars, eqVars, restVars>>
    /\ EmPageEffects(c)

\* the update (editing?.id) or the insert resolves; .single() is an error when
\* no row comes back
EmWriteResolve(c) ==
    /\ emPc[c] = "write"
    /\ LET values == emCall[c].values
           editing == emCall[c].editing
       IN IF editing.id # 0
          THEN \E error \in {TRUE, \A r \in emRows : r.id # editing.id} :
                 IF error
                 THEN /\ emToast' = [emToast EXCEPT ![c] = <<"Error al actualizar">>]
                      /\ UNCHANGED <<emRows, emNextId, emRecords, emOpen, emEditing>>
                 ELSE /\ emRows' = StoreUpdate(emRows, editing.id, values)
                      /\ emRecords' = [emRecords EXCEPT ![c] =
                            SeqReplace(@, editing.id,
                                       MapRecord([id |-> editing.id,
                                                  exercise_id |-> values.exercise_id,
                                                  muscle_id |-> values.muscle_id,
                                                  role |-> values.role]))]
                      /\ emToast' = [emToast EXCEPT ![c] = <<"Relacion actualizada">>]
                      /\ emOpen' = [emOpen EXCEPT ![c] = FALSE]
                      /\ emEditing' = [emEditing EXCEPT ![c] = EmNull]
                      /\ UNCHANGED emNextId
          ELSE \E error \in {TRUE, emNextId > emIdCap} :
                 IF error
                 THEN /\ emToast' = [emToast EXCEPT ![c] = <<"Error al crear">>]
                      /\ UNCHANGED <<emRows, emNextId, emRecords, emOpen, emEditing>>
                 ELSE LET created == StoreInsertRows(emNextId, <<values>>)
                      IN /\ emRows' = emRows \cup Range(created)
                         /\ emNextId' = emNextId + 1
                         /\ emRecords' = [emRecords EXCEPT ![c] = MapRecords(created) \o @]
                         /\ emToast' = [emToast EXCEPT ![c] = <<"Relacion creada">>]
                         /\ emOpen' = [emOpen EXCEPT ![c] = FALSE]
                         /\ emEditing' = [emEditing EXCEPT ![c] = EmNull]
    /\ emSubmitting' = [emSubmitting EXCEPT ![c] = SubmitFinally("idle")]
    /\ emPc' = [emPc EXCEPT ![c] = "idle"]
    /\ emCall' = [emCall EXCEPT ![c] = EmNoCall]
    /\ UNCHANGED <<emToDelete, emSaving, emSelExercise, emSelPrimary, emSelSecondary>>
    /\ UNCHANGED <<emOps, exVars, eqVars, restVars>>
    /\ EmPageEffects(c)

\* the multi-select create form is on screen: the dialog is open and editing is null
EmCreateForm(c) == emOpen[c] /\ emEditing[c] = EmNull

\* the exercise <select> of the create form: setSelectedExerciseId(e.target.value)
EmSelectExercise(c) ==
    /\ EmCreateForm(c)
    /\ \E e \in Exercises \cup {""} :
         /\ e # emSelExercise[c]
         /\ emSelExercise' = [emSelExercise EXCEPT ![c] = e]
    /\ UNCHANGED <<emRows, emNextId, emRecords, emEditing, emOpen, emToDelete, emSubmitting,
                   emSaving, emSelPrimary, emSelSecondary, emPc, emCall, emToast>>
    /\ UNCHANGED <<emOps, exVars, eqVars, restVars>>
    /\ EmPageEffects(c)

HandlePrimaryToggleKeeping(primary, secondary, muscleId, checked) ==
    [primary |-> IF checked THEN Append(primary, muscleId) ELSE SeqWithout(primary, muscleId),
     secondary |-> secondary]

\* handlePrimaryToggle(muscleId, checked)
HandlePrimaryToggle(primary, secondary, muscleId, checked) ==
    [primary |-> IF checked THEN Append(primary, muscleId) ELSE SeqWithout(primary, muscleId),
     secondary |-> SeqWithout(secondary, muscleId)]

\* handleSecondaryToggle(muscleId, checked)
HandleSecondaryToggle(primary, secondary, muscleId, checked) ==
    [secondary |-> IF checked THEN Append(secondary, muscleId)
                   ELSE SeqWithout(secondary, muscleId),
     primary |-> SeqWithout(primary, muscleId)]

\* a primary checkbox is clicked: e.target.checked is the box's new state
EmPrimaryToggle(c) ==
    /\ EmCreateForm(c)
    /\ \E m \in Muscles :
         LET r == HandlePrimaryToggle(emSelPrimary[c], emSelSecondary[c], m,
                                      m \notin Range(emSelPrimary[c]))
         IN /\ emSelPrimary' = [emSelPrimary EXCEPT ![c] = r.primary]
            /\ emSelSecondary' = [emSelSecondary EXCEPT ![c] = r.secondary]
    /\ UNCHANGED <<emRows, emNextId, emRecords, emEditing, emOpen, emToDelete, emSubmitting,
                   emSaving, emSelExercise, emPc, emCall, emToast>>
    /\ UNCHANGED <<emOps, exVars, eqVars, restVars>>
    /\ EmPageEffects(c)

\* a secondary checkbox is clicked
EmSecondaryToggle(c) ==
    /\ EmCreateForm(c)
    /\ \E m \in Muscles :
         LET r == HandleSecondaryToggle(emSelPrimary[c], emSelSecondary[c], m,
                                        m \notin Range(emSelSecondary[c]))
         IN /\ emSelPrimary' = [emSelPrimary EXCEPT ![c] = r.primary]
            /\ emSelSecondary' = [emSelSecondary EXCEPT ![c] = r.secondary]
    /\ UNCHANGED <<emRows, emNextId, emRecords, emEditing, emOpen, emToDelete, emSubmitting,
                   emSaving, emSelExercise, emPc, emCall, emToast>>
    /\ UNCHANGED <<emOps, exVars, eqVars, restVars>>
    /\ EmPageEffects(c)

\* "Crear Relaciones": submitMulti runs to its await, or returns at once when
\* nothing is selected
EmSubmitMultiStart(c) ==
    /\ EmCreateForm(c)
    /\ ~emSaving[c]
    /\ emPc[c] = "idle"
    /\ IF emSelExercise[c] = "" \/ (Len(emSelPrimary[c]) = 0 /\ Len(emSelSecondary[c]) = 0)
       THEN /\ emToast' = [emToast EXCEPT ![c] =
                              <<"Selecciona ejercicio y al menos un musculo">>]
            /\ UNCHANGED <<emPc, emCall, emOps>>
       ELSE /\ emOps < MaxEmOps
            /\ emOps' = emOps + 1
            /\ emCall' = [emCall EXCEPT ![c] =
                             [values |-> EmNoCall.values, editing |-> EmNull,
                              toDelete |-> EmNull,
                              relations |-> Relations(emSelExercise[c], emSelPrimary[c],
                                                      emSelSecondary[c])]]
            /\ emPc' = [emPc EXCEPT ![c] = "multi"]
            /\ emToast' = [emToast EXCEPT ![c] = <<>>]
    /\ UNCHANGED <<emRows, emNextId, emRecords, emEditing, emOpen, emToDelete, emSubmitting,
                   emSaving, emSelExercise, emSelPrimary, emSelSecondary>>
    /\ UNCHANGED <<exVars, eqVars, restVars>>
    /\ EmPageEffects(c)

\* the bulk insert of submitMulti resolves
EmSubmitMultiResolve(c) ==
    /\ emPc[c] = "multi"
    /\ LET relations == emCall[c].relations
       IN \E error \in {TRUE, emNextId + Len(relations) - 1 > emIdCap} :
            IF error
            THEN /\ emToast' = [emToast EXCEPT ![c] = <<"Error al crear relaciones">>]
                 /\ UNCHANGED <<emRows, emNextId, emRecords, emOpen, emSelExercise,
                                emSelPrimary, emSelSecondary>>
            ELSE LET created == StoreInsertRows(emNextId, relations)
                 IN /\ emRows' = emRows \cup Range(created)
                    /\ emNextId' = emNextId + Len(relations)
                    /\ emRecords' = [emRecords EXCEPT ![c] = MapRecords(created) \o @]
                    /\ emToast' = [emToast EXCEPT ![c] = <<"relaciones creadas">>]
                    /\ emOpen' = [emOpen EXCEPT ![c] = FALSE]
                    /\ emSelExercise' = [emSelExercise EXCEPT ![c] = ""]
                    /\ emSelPrimary' = [emSelPrimary EXCEPT ![c] = <<>>]
                    /\ emSelSecondary' = [emSelSecondary EXCEPT ![c] = <<>>]
    /\ emPc' = [emPc EXCEPT ![c] = "idle"]
    /\ emCall' = [emCall EXCEPT ![c] = EmNoCall]
    /\ UNCHANGED <<emEditing, emToDelete, emSubmitting, emSaving>>
    /\ UNCHANGED <<emOps, exVars, eqVars, restVars>>
    /\ EmPageEffects(c)

\* "Crear Relaciones" pressed again while a submitMulti is awaiting the store:
\* the button is disabled by `saving`, which no handler sets, so a second
\* submitMulti runs to its await on the selections as they are now
EmSubmitMultiAgain(c) ==
    /\ EmCreateForm(c)
    /\ ~emSaving[c]
    /\ emPc[c] = "multi"
    /\ emSecondCall[c] = <<>>
    /\ emSelExercise[c] # "" /\ (Len(emSelPrimary[c]) # 0 \/ Len(emSelSecondary[c]) # 0)
    /\ emOps < MaxEmOps
    /\ emOps' = emOps + 1
    /\ emSecondCall' = [emSecondCall EXCEPT ![c] =
                            Relations(emSelExercise[c], emSelPrimary[c], emSelSecondary[c])]
    /\ emToast' = [emToast EXCEPT ![c] = <<>>]
    /\ UNCHANGED <<emRows, emNextId, emRecords, emEditing, emOpen, emToDelete, emSubmitting,
                   emSaving, emSelExercise, emSelPrimary, emSelSecondary, emPc, emCall>>
    /\ UNCHANGED <<emQuery, emPage, emIdCap>>
    /\ UNCHANGED <<exVars, eqVars, restVars>>

\* the bulk insert of the second submitMulti resolves
EmSecondResolve(c) ==
    /\ emSecondCall[c] # <<>>
    /\ LET relations == emSecondCall[c]
       IN \E error \in {TRUE, emNextId + Len(relations) - 1 > emIdCap} :
            IF error
            THEN /\ emToast' = [emToast EXCEPT ![c] = <<"Error al crear relaciones">>]
                 /\ UNCHANGED <<emRows, emNextId, emRecords, emOpen, emSelExercise,
                                emSelPrimary, emSelSecondary>>
            ELSE LET created == StoreInsertRows(emNextId, relations)
                 IN /\ emRows' = emRows \cup Range(created)
                    /\ emNextId' = emNextId + Len(relations)
                    /\ emRecords' = [emRecords EXCEPT ![c] = MapRecords(created) \o @]
                    /\ emToast' = [emToast EXCEPT ![c] = <<"relaciones creadas">>]
                    /\ emOpen' = [emOpen EXCEPT ![c] = FALSE]
                    /\ emSelExercise' = [emSelExercise EXCEPT ![c] = ""]
                    /\ emSelPrimary' = [emSelPrimary EXCEPT ![c] = <<>>]
                    /\ emSelSecondary' = [emSelSecondary EXCEPT ![c] = <<>>]
    /\ emSecondCall' = [emSecondCall EXCEPT ![c] = <<>>]
    /\ UNCHANGED <<emEditing, emToDelete, emSubmitting, emSaving, emPc, emCall>>
    /\ UNCHANGED <<emQuery, emIdCap>>
    /\ emPage' = [emPage EXCEPT ![c] =
            ClampEffect(@, TotalPages(EmFiltered(emRecords[c], emQuery[c]), PAGE_SIZE),
                        TotalPages(EmFiltered(emRecords'[c], emQuery[c]), PAGE_SIZE))]
    /\ UNCHANGED <<emOps, exVars, eqVars, restVars>>

\* the row's trash button: setToDelete(item)
EmAskDelete(c) ==
    /\ EmNoModal(c)
    /\ \E item \in Range(EmOnScreen(c)) :
         emToDelete' = [emToDelete EXCEPT ![c] = item]
    /\ UNCHANGED <<emRows, emNextId, emRecords, emEditing, emOpen, emSubmitting, emSaving,
                   emSelExercise, emSelPrimary, emSelSecondary, emPc, emCall, emToast>>
    /\ UNCHANGED <<emOps, exVars, eqVars, restVars>>
    /\ EmPageEffects(c)

\* the delete dialog is dismissed: onOpenChange(false) -> setToDelete(null)
EmCancelDelete(c) ==
    /\ emToDelete[c] # EmNull
    /\ emToDelete' = [emToDelete EXCEPT ![c] = EmNull]
    /\ UNCHANGED <<emRows, emNextId, emRecords, emEditing, emOpen, emSubmitting, emSaving,
                   emSelExercise, emSelPrimary, emSelSecondary, emPc, emCall, emToast>>
    /\ UNCHANGED <<emOps, exVars, eqVars, restVars>>
    /\ EmPageEffects(c)

\* "Eliminar": onDelete runs to its await
EmDeleteStart(c) ==
    /\ emToDelete[c] # EmNull
    /\ emPc[c] = "idle"
    /\ emOps < MaxEmOps
    /\ emPc' = [emPc EXCEPT ![c] = "delete"]
    /\ emCall' = [emCall EXCEPT ![c] = [EmNoCall EXCEPT !.toDelete = emToDelete[c]]]
    /\ emToast' = [emToast EXCEPT ![c] = <<>>]
    /\ UNCHANGED <<emRows, emNextId, emRecords, emEditing, emOpen, emToDelete, emSubmitting,
                   emSaving, emSelExercise, emSelPrimary, emSelSecondary>>
    /\ emOps' = emOps + 1
    /\ UNCHANGED <<exVars, eqVars, restVars>>
    /\ EmPageEffects(c)

\* delete().eq("id", toDelete.id) resolves; toDelete is the one onDelete closed over
EmDeleteResolve(c) ==
    /\ emPc[c] = "delete"
    /\ \E error \in BOOLEAN :
         IF error
         THEN /\ emToast' = [emToast EXCEPT ![c] = <<"No se pudo eliminar">>]
              /\ UNCHANGED <<emRows, emRecords, emToDelete>>
         ELSE /\ emRows' = {r \in emRows : r.id # emCall[c].toDelete.id}
              /\ emRecords' = [emRecords EXCEPT ![c] = SeqFilterOut(@, emCall[c].toDelete.id)]
              /\ emToast' = [emToast EXCEPT ![c] = <<"Relacion eliminada">>]
              /\ emToDelete' = [emToDelete EXCEPT ![c] = EmNull]
    /\ emPc' = [emPc EXCEPT ![c] = "idle"]
    /\ emCall' = [emCall EXCEPT ![c] = EmNoCall]
    /\ UNCHANGED <<emNextId, emEditing, emOpen, emSubmitting, emSaving,
                   emSelExercise, emSelPrimary, emSelSecondary>>
    /\ UNCHANGED <<emOps, exVars, eqVars, restVars>>
    /\ EmPageEffects(c)

\* the exercise_muscle rows the race scenario starts from: distinct triples
EmSeedCount == PAGE_SIZE + 1     \* rows in the table when the paging runs start: a page and one
MaxEmPagingOps == 1   \* submitMulti / onDelete runs of a paging run
EmQueries == {<<>>, <<" ">>, <<"A", "b", " ">>}

QueryEffectKeeping(page) == page

\* useEffect(() => setPage(1), [query])
QueryEffect(page) == 1

\* the search box: onChange={(e) => setQuery(e.target.value)}; after the
\* render the query effect sets the page to 1 and, totalPages having changed,
\* the clamp effect runs on that
EmSetQuery(c) ==
    /\ EmNoModal(c)
    /\ \E q \in EmQueries :
         /\ q # emQuery[c]
         /\ emQuery' = [emQuery EXCEPT ![c] = q]
         /\ emPage' = [emPage EXCEPT ![c] =
                          ClampEffect(QueryEffect(@),
                                      TotalPages(EmFiltered(emRecords[c], emQuery[c]), PAGE_SIZE),
                                      TotalPages(EmFiltered(emRecords[c], q), PAGE_SIZE))]
    /\ UNCHANGED <<emRows, emNextId, emRecords, emEditing, emOpen, emToDelete, emSubmitting,
                   emSaving, emSelExercise, emSelPrimary, emSelSecondary, emPc, emCall,
                   emToast, emOps, emIdCap, emSecondCall>>
    /\ UNCHANGED <<exVars, eqVars, restVars>>

\* "Anterior": setPage(prev => Math.max(1, prev - 1)), disabled when
\* page <= 1 || filtered.length === 0
EmPrevPage(c) ==
    /\ EmNoModal(c)
    /\ ~(emPage[c] <= 1 \/ Len(EmFiltered(emRecords[c], emQuery[c])) = 0)
    /\ emPage' = [emPage EXCEPT ![c] = IF @ - 1 < 1 THEN 1 ELSE @ - 1]
    /\ UNCHANGED <<emRows, emNextId, emRecords, emEditing, emOpen, emToDelete, emSubmitting,
                   emSaving, emSelExercise, emSelPrimary, emSelSecondary, emPc, emCall,
                   emToast, emOps, emQuery, emIdCap, emSecondCall>>
    /\ UNCHANGED <<exVars, eqVars, restVars>>

\* "Siguiente": setPage(prev => Math.min(totalPages, prev + 1)), disabled when
\* page >= totalPages || filtered.length === 0
EmNextPage(c) ==
    /\ EmNoModal(c)
    /\ LET filtered == EmFiltered(emRecords[c], emQuery[c])
           totalPages == TotalPages(filtered, PAGE_SIZE)
       IN /\ ~(emPage[c] >= totalPages \/ Len(filtered) = 0)
          /\ emPage' = [emPage EXCEPT ![c] = IF totalPages < @ + 1 THEN totalPages ELSE @ + 1]
    /\ UNCHANGED <<emRows, emNextId, emRecords, emEditing, emOpen, emToDelete, emSubmitting,
                   emSaving, emSelExercise, emSelPrimary, emSelSecondary, emPc, emCall,
                   emToast, emOps, emQuery, emIdCap, emSecondCall>>
    /\ UNCHANGED <<exVars, eqVars, restVars>>

EmSeedRows ==
    {[id |-> 1, exercise_id |-> "exA", muscle_id |-> 1, role |-> "primary"],
     [id |-> 2, exercise_id |-> "exA", muscle_id |-> 2, role |-> "primary"]}

\* every session has just mounted the page: nothing loaded, loadRecords in flight
EmInitSessions ==
    /\ emRecords = [c \in Clients |-> <<>>]
    /\ emEditing = [c \in Clients |-> EmNull]
    /\ emOpen = [c \in Clients |-> FALSE]
    /\ emToDelete = [c \in Clients |-> EmNull]
    /\ emSubmitting = [c \in Clients |-> FALSE]
    /\ emSaving = [c \in Clients |-> FALSE]
    /\ emSelExercise = [c \in Clients |-> ""]
    /\ emSelPrimary = [c \in Clients |-> <<>>]
    /\ emSelSecondary = [c \in Clients |-> <<>>]
    /\ emPc = [c \in Clients |-> "load"]
    /\ emCall = [c \in Clients |-> EmNoCall]
    /\ emToast = [c \in Clients |-> <<>>]
    /\ emOps = 0
    /\ emQuery = [c \in Clients |-> <<>>]
    /\ emPage = [c \in Clients |-> 1]
    /\ emSecondCall = [c \in Clients |-> <<>>]

\* an empty table
EmInit == emRows = {} /\ emNextId = 1 /\ emIdCap = MaxEmId /\ EmInitSessions

\* a table that holds the seed rows
EmInitSeeded == emRows = EmSeedRows /\ emNextId = 3 /\ emIdCap = MaxEmId /\ EmInitSessions

\* a table of EmSeedCount rows, one muscle each, all primary; the store has
\* one more id to hand out
EmPagingRows ==
    {[id |-> i, exercise_id |-> "exA", muscle_id |-> i, role |-> "primary"] : i \in 1..EmSeedCount}

EmInitPaging ==
    /\ emRows = EmPagingRows
    /\ emNextId = EmSeedCount + 1
    /\ emIdCap = EmSeedCount + 1
    /\ EmInitSessions

\* ExerciseMusclePage, one session using every control of the page
NextEM ==
    \E c \in {1} :
        \/ EmLoadRecords(c)
        \/ EmOpenEdit(c)
        \/ EmOpenNew(c)
        \/ EmCloseDialog(c)
        \/ EmSubmitStart(c)
        \/ EmCheckResolve(c)
        \/ EmWriteResolve(c)
        \/ EmSelectExercise(c)
        \/ EmPrimaryToggle(c)
        \/ EmSecondaryToggle(c)
        \/ EmSubmitMultiStart(c)
        \/ EmSubmitMultiResolve(c)
        \/ EmAskDelete(c)
        \/ EmCancelDelete(c)
        \/ EmDeleteStart(c)
        \/ EmDeleteResolve(c)

\* submitMulti and onDelete as started in a paging run
EmPagingSubmitMultiStart(c) == emOps < MaxEmPagingOps /\ EmSubmitMultiStart(c)
EmPagingDeleteStart(c) == emOps < MaxEmPagingOps /\ EmDeleteStart(c)

\* ExerciseMusclePage, one session: the load, the search box, the page buttons,
\* the create form and the delete dialog
NextEMPaging ==
    \E c \in {1} :
        \/ EmLoadRecords(c)
        \/ EmSetQuery(c)
        \/ EmPrevPage(c)
        \/ EmNextPage(c)
        \/ EmOpenNew(c)
        \/ EmCloseDialog(c)
        \/ EmSelectExercise(c)
        \/ EmPrimaryToggle(c)
        \/ EmPagingSubmitMultiStart(c)
        \/ EmSubmitMultiResolve(c)
        \/ EmAskDelete(c)
        \/ EmCancelDelete(c)
        \/ EmPagingDeleteStart(c)
        \/ EmDeleteResolve(c)

\* ExerciseMusclePage, one session and its create form, "Crear Relaciones"
\* being pressed as often as the button allows
NextEMDouble ==
    \E c \in {1} :
        \/ EmLoadRecords(c)
        \/ EmOpenNew(c)
        \/ EmCloseDialog(c)
        \/ EmSelectExercise(c)
        \/ EmPrimaryToggle(c)
        \/ EmSecondaryToggle(c)
        \/ EmSubmitMultiStart(c)
        \/ EmSubmitMultiResolve(c)
        \/ EmSubmitMultiAgain(c)
        \/ EmSecondResolve(c)

\* ExerciseMusclePage, one session editing the rows of the table
NextEMEdit ==
    \E c \in {1} :
        \/ EmLoadRecords(c)
        \/ EmOpenEdit(c)
        \/ EmCloseDialog(c)
        \/ EmSubmitStart(c)
        \/ EmCheckResolve(c)
        \/ EmWriteResolve(c)

\* ExerciseMusclePage, two sessions editing the rows of one table
NextEMRace ==
    \E c \in Clients :
        \/ EmLoadRecords(c)
        \/ EmOpenEdit(c)
        \/ EmCloseDialog(c)
        \/ EmSubmitStart(c)
        \/ EmCheckResolve(c)
        \/ EmWriteResolve(c)

(***************************************************************************)
(* ExercisePage  (src/unnamed/part_002)                                    *)
(*                                                                         *)
(* An exercise row is modelled by its id; a join table by the number of    *)
(* rows it holds for each (exercise_id, related id).  The three            *)
(* syncRelation calls of Promise.all, and the three association deletes    *)
(* of onDelete, are in flight together: exSync[c][t] is where the call on  *)
(* table t is.                                                             *)
(***************************************************************************)
ExTables == {"exercise_equipment", "exercise_movement_pattern", "exercise_muscle"}
ExIds == 1..MaxExId

\* the related ids the form offers for each join table
ExValueIds(t) == IF t = "exercise_equipment" THEN {1, 2} ELSE {1}

ExNull == [id |-> 0]

\* values.equipment_ids, values.pattern_ids, values.muscle_ids of the submitted
\* forms: any choice of equipment, movement pattern 1, no muscle
ExFormValues ==
    {[t \in ExTables |-> IF t = "exercise_equipment" THEN S
                         ELSE IF t = "exercise_movement_pattern" THEN {1} ELSE {}] :
        S \in SUBSET ExValueIds("exercise_equipment")}

ExNoValues == [t \in ExTables |-> {}]
ExNoCall == [values |-> ExNoValues, editing |-> ExNull, id |-> 0, toDelete |-> ExNull]
ExNoSync == [t \in ExTables |-> "none"]

\* the related ids of the join rows of table t for exercise e
ExJoinIds(t, e) == {v \in ExValueIds(t) : exJoin[t][e][v] > 0}

\* delete().eq("exercise_id", exerciseId) on one join table
JoinDelete(rows, exerciseId) == [rows EXCEPT ![exerciseId] = [v \in DOMAIN @ |-> 0]]

\* insert(values.map((value) => ({ exercise_id: exerciseId, [column]: value })))
JoinInsert(rows, exerciseId, values) ==
    [rows EXCEPT ![exerciseId] = [v \in DOMAIN @ |-> IF v \in values THEN @[v] + 1 ELSE @[v]]]

\* a delete step that leaves the parent's rows in place
SyncAfterDeleteKeeping(rows, exerciseId, error) == rows

\* syncRelation's first store call: its result is not read
SyncAfterDelete(rows, exerciseId, error) ==
    IF error THEN rows ELSE JoinDelete(rows, exerciseId)

\* an insert step that replaces the parent's rows instead of adding to them
SyncAfterInsertReplacing(rows, exerciseId, values, error) ==
    IF error THEN rows
    ELSE [rows EXCEPT ![exerciseId] = [v \in DOMAIN @ |-> IF v \in values THEN 1 ELSE 0]]

\* an insert step that writes its rows even when it reports an error
SyncAfterInsertDespiteError(rows, exerciseId, values, error) ==
    JoinInsert(rows, exerciseId, values)

\* syncRelation's second store call: its result is not read
SyncAfterInsert(rows, exerciseId, values, error) ==
    IF error THEN rows ELSE JoinInsert(rows, exerciseId, values)

\* loadExercises: const { data } = await ...; setRecords((data || []).map(...));
\* data is null when the query fails
LoadExercises(error, exercises, records) ==
    LET data == IF error THEN <<>> ELSE SortById({[id |-> e] : e \in exercises})
    IN data

\* a selection effect that tests only for a missing selection
SelectionEffectKeeping(records, selected) ==
    IF Len(records) = 0 THEN 0
    ELSE IF selected = 0 THEN records[1].id ELSE selected

\* the selectedExerciseId effect, run on every change of records
SelectionEffect(records, selected) ==
    IF Len(records) = 0 THEN 0
    ELSE IF selected = 0 \/ \A i \in 1..Len(records) : records[i].id # selected
         THEN records[1].id
         ELSE selected

\* a store call of the exercise page may fail while the fault budget lasts
ExMayFail == IF exFaults < MaxFaults THEN BOOLEAN ELSE {FALSE}

ExFault(error) == exFaults' = IF error THEN exFaults + 1 ELSE exFaults

ExNoModal(c) == ~exOpen[c] /\ exToDelete[c] = ExNull

\* loadExercises of the mount effect resolves
ExLoadResolve(c) ==
    /\ exPc[c] = "load"
    /\ \E error \in ExMayFail :
         /\ exRecords' = [exRecords EXCEPT ![c] = LoadExercises(error, exExercises, @)]
         /\ exFailed' = [exFailed EXCEPT ![c] = {}]
         /\ ExFault(error)
    /\ exSelected' = [exSelected EXCEPT ![c] = SelectionEffect(exRecords'[c], @)]
    /\ exPc' = [exPc EXCEPT ![c] = "idle"]
    /\ UNCHANGED <<exExercises, exJoin, exNextId, exEditing, exOpen, exToDelete, exCall, exSync>>
    /\ UNCHANGED <<exOps, emVars, eqVars, restVars>>

\* the row's pencil button: setEditing(item); setOpen(true)
ExOpenEdit(c) ==
    /\ ExNoModal(c)
    /\ \E i \in 1..Len(exRecords[c]) :
         exEditing' = [exEditing EXCEPT ![c] = exRecords[c][i]]
    /\ exOpen' = [exOpen EXCEPT ![c] = TRUE]
    /\ UNCHANGED <<exExercises, exJoin, exNextId, exRecords, exToDelete, exSelected, exPc,
                   exCall, exSync, exFailed, exFaults>>
    /\ UNCHANGED <<exOps, emVars, eqVars, restVars>>

\* "Nuevo": setEditing(null); setOpen(true)
ExOpenNew(c) ==
    /\ ExNoModal(c)
    /\ exEditing' = [exEditing EXCEPT ![c] = ExNull]
    /\ exOpen' = [exOpen EXCEPT ![c] = TRUE]
    /\ UNCHANGED <<exExercises, exJoin, exNextId, exRecords, exToDelete, exSelected, exPc,
                   exCall, exSync, exFailed, exFaults>>
    /\ UNCHANGED <<exOps, emVars, eqVars, restVars>>

\* the "Ejercicio" select of the related-muscles card, rendered while the
\* list is not empty: setSelectedExerciseId(event.target.value), then the
\* selection effect runs on the changed selectedExerciseId
ExSelectExercise(c) ==
    /\ ExNoModal(c)
    /\ Len(exRecords[c]) > 0
    /\ \E i \in 1..Len(exRecords[c]) :
         /\ exRecords[c][i].id # exSelected[c]
         /\ exSelected' = [exSelected EXCEPT ![c] =
                             SelectionEffect(exRecords[c], exRecords[c][i].id)]
    /\ UNCHANGED <<exExercises, exJoin, exNextId, exRecords, exEditing, exOpen, exToDelete,
                   exPc, exCall, exSync, exFailed, exFaults>>
    /\ UNCHANGED <<exOps, emVars, eqVars, restVars>>

\* onOpenChange(false): setOpen(false)
ExCloseDialog(c) ==
    /\ exOpen[c]
    /\ exOpen' = [exOpen EXCEPT ![c] = FALSE]
    /\ UNCHANGED <<exExercises, exJoin, exNextId, exRecords, exEditing, exToDelete, exSelected,
                   exPc, exCall, exSync, exFailed, exFaults>>
    /\ UNCHANGED <<exOps, emVars, eqVars, restVars>>

\* the form is submitted with valid values: submit runs to its first await, the
\* update (editing?.id) or the insert of the exercise row
ExSubmitStart(c) ==
    /\ exOpen[c]
    /\ exPc[c] = "idle"
    /\ exOps < MaxExOps
    /\ exEditing[c].id = 0 => exNextId <= MaxExId
    /\ \E values \in ExFormValues :
         exCall' = [exCall EXCEPT ![c] = [values |-> values, editing |-> exEditing[c],
                                          id |-> 0, toDelete |-> ExNull]]
    /\ exPc' = [exPc EXCEPT ![c] = "write"]
    /\ exFailed' = [exFailed EXCEPT ![c] = {}]
    /\ UNCHANGED <<exExercises, exJoin, exNextId, exRecords, exEditing, exOpen, exToDelete,
                   exSelected, exSync, exFaults>>
    /\ exOps' = exOps + 1
    /\ UNCHANGED <<emVars, eqVars, restVars>>

\* the exercise update / insert resolves.  With a row back (!error && data) the
\* three syncRelation calls start with data.id; otherwise submit goes straight to
\* setOpen(false); setEditing(null)
ExWriteResolve(c) ==
    /\ exPc[c] = "write"
    /\ LET editing == exCall[c].editing
           missing == editing.id # 0 /\ editing.id \notin exExercises
       IN \E error \in (ExMayFail \cup {missing}) \ (IF missing THEN {FALSE} ELSE {}) :
            /\ ExFault(error /\ ~missing)
            /\ IF error
               THEN /\ exFailed' = [exFailed EXCEPT ![c] = {}]
                    /\ exOpen' = [exOpen EXCEPT ![c] = FALSE]
                    /\ exEditing' = [exEditing EXCEPT ![c] = ExNull]
                    /\ exPc' = [exPc EXCEPT ![c] = "idle"]
                    /\ exCall' = [exCall EXCEPT ![c] = ExNoCall]
                    /\ UNCHANGED <<exExercises, exNextId, exSync>>
               ELSE /\ LET id == IF editing.id # 0 THEN editing.id ELSE exNextId
                       IN /\ exExercises' = exExercises \cup {id}
                          /\ exCall' = [exCall EXCEPT ![c].id = id]
                    /\ exNextId' = IF editing.id # 0 THEN exNextId ELSE exNextId + 1
                    /\ exSync' = [exSync EXCEPT ![c] = [t \in ExTables |-> "delete"]]
                    /\ exPc' = [exPc EXCEPT ![c] = "sync"]
                    /\ UNCHANGED <<exFailed, exOpen, exEditing>>
    /\ UNCHANGED <<exJoin, exRecords, exToDelete, exSelected>>
    /\ UNCHANGED <<exOps, emVars, eqVars, restVars>>

\* a Promise.all that counts as resolved as soon as one of its calls has resolved
ExAnyDone(sync) == \E t \in ExTables : sync[t] = "done"

\* every call of the Promise.all has resolved
ExAllDone(sync) == \A t \in ExTables : sync[t] = "done"

\* syncRelation, first store call: delete().eq("exercise_id", exerciseId); then
\* `if (values.length === 0) return;` or the insert is issued
ExSyncDelete(c, t) ==
    /\ exPc[c] = "sync"
    /\ exSync[c][t] = "delete"
    /\ \E error \in ExMayFail :
         /\ ExFault(error)
         /\ exJoin' = [exJoin EXCEPT ![t] = SyncAfterDelete(@, exCall[c].id, error)]
         /\ exFailed' = [exFailed EXCEPT ![c] =
                            IF error THEN @ \cup {<<t, "delete">>} ELSE @]
    /\ LET sync == [exSync[c] EXCEPT ![t] =
                       IF exCall[c].values[t] = {} THEN "done" ELSE "insert"]
       IN /\ exSync' = [exSync EXCEPT ![c] = sync]
          /\ exPc' = [exPc EXCEPT ![c] = IF ExAllDone(sync) THEN "reload" ELSE "sync"]
    /\ UNCHANGED <<exExercises, exNextId, exRecords, exEditing, exOpen, exToDelete, exSelected,
                   exCall>>
    /\ UNCHANGED <<exOps, emVars, eqVars, restVars>>

\* syncRelation, second store call: the insert of one row per value
ExSyncInsert(c, t) ==
    /\ exPc[c] = "sync"
    /\ exSync[c][t] = "insert"
    /\ \E error \in ExMayFail :
         /\ ExFault(error)
         /\ exJoin' = [exJoin EXCEPT ![t] =
                          SyncAfterInsert(@, exCall[c].id, exCall[c].values[t], error)]
         /\ exFailed' = [exFailed EXCEPT ![c] =
                            IF error THEN @ \cup {<<t, "insert">>} ELSE @]
    /\ LET sync == [exSync[c] EXCEPT ![t] = "done"]
       IN /\ exSync' = [exSync EXCEPT ![c] = sync]
          /\ exPc' = [exPc EXCEPT ![c] = IF ExAllDone(sync) THEN "reload" ELSE "sync"]
    /\ UNCHANGED <<exExercises, exNextId, exRecords, exEditing, exOpen, exToDelete, exSelected,
                   exCall>>
    /\ UNCHANGED <<exOps, emVars, eqVars, restVars>>

\* `await loadExercises()` of submit resolves; then setOpen(false); setEditing(null)
ExReloadResolve(c) ==
    /\ exPc[c] = "reload"
    /\ \E error \in ExMayFail :
         /\ ExFault(error)
         /\ exRecords' = [exRecords EXCEPT ![c] = LoadExercises(error, exExercises, @)]
         /\ exFailed' = [exFailed EXCEPT ![c] = {}]
    /\ exSelected' = [exSelected EXCEPT ![c] = SelectionEffect(exRecords'[c], @)]
    /\ exOpen' = [exOpen EXCEPT ![c] = FALSE]
    /\ exEditing' = [exEditing EXCEPT ![c] = ExNull]
    /\ exSync' = [exSync EXCEPT ![c] = ExNoSync]
    /\ exPc' = [exPc EXCEPT ![c] = "idle"]
    /\ exCall' = [exCall EXCEPT ![c] = ExNoCall]
    /\ UNCHANGED <<exExercises, exJoin, exNextId, exToDelete>>
    /\ UNCHANGED <<exOps, emVars, eqVars, restVars>>

\* the row's trash button: setToDelete(item)
ExAskDelete(c) ==
    /\ ExNoModal(c)
    /\ \E i \in 1..Len(exRecords[c]) :
         exToDelete' = [exToDelete EXCEPT ![c] = exRecords[c][i]]
    /\ UNCHANGED <<exExercises, exJoin, exNextId, exRecords, exEditing, exOpen, exSelected,
                   exPc, exCall, exSync, exFailed, exFaults>>
    /\ UNCHANGED <<exOps, emVars, eqVars, restVars>>

\* the delete dialog is dismissed: setToDelete(null)
ExCancelDelete(c) ==
    /\ exToDelete[c] # ExNull
    /\ exToDelete' = [exToDelete EXCEPT ![c] = ExNull]
    /\ UNCHANGED <<exExercises, exJoin, exNextId, exRecords, exEditing, exOpen, exSelected,
                   exPc, exCall, exSync, exFailed, exFaults>>
    /\ UNCHANGED <<exOps, emVars, eqVars, restVars>>

\* "Eliminar": onDelete issues the three association deletes of its Promise.all
ExDeleteStart(c) ==
    /\ exToDelete[c] # ExNull
    /\ exPc[c] = "idle"
    /\ exOps < MaxExOps
    /\ exCall' = [exCall EXCEPT ![c] = [ExNoCall EXCEPT !.toDelete = exToDelete[c],
                                                        !.id = exToDelete[c].id]]
    /\ exSync' = [exSync EXCEPT ![c] = [t \in ExTables |-> "cascade"]]
    /\ exPc' = [exPc EXCEPT ![c] = "delete_relations"]
    /\ exFailed' = [exFailed EXCEPT ![c] = {}]
    /\ UNCHANGED <<exExercises, exJoin, exNextId, exRecords, exEditing, exOpen, exToDelete,
                   exSelected, exFaults>>
    /\ exOps' = exOps + 1
    /\ UNCHANGED <<emVars, eqVars, restVars>>

\* an onDelete that stops when an association delete returned an error
CascadeNextGuarded(sync, failed) ==
    IF ~ExAllDone(sync) THEN "delete_relations"
    ELSE IF failed # {} THEN "idle" ELSE "delete_exercise"

\* onDelete after `await Promise.all([...])`: the three results are discarded and
\* the delete of the exercise row is issued
CascadeNext(sync, failed) ==
    IF ExAllDone(sync) THEN "delete_exercise" ELSE "delete_relations"

\* one association delete of onDelete resolves; its result is not read.  After
\* the last one the delete of the exercise row is issued
ExCascadeDelete(c, t) ==
    /\ exPc[c] = "delete_relations"
    /\ exSync[c][t] = "cascade"
    /\ \E error \in ExMayFail :
         /\ ExFault(error)
         /\ exJoin' = [exJoin EXCEPT ![t] = IF error THEN @ ELSE JoinDelete(@, exCall[c].id)]
         /\ exFailed' = [exFailed EXCEPT ![c] =
                            IF error THEN @ \cup {<<t, "delete">>} ELSE @]
    /\ LET sync == [exSync[c] EXCEPT ![t] = "done"]
       IN /\ exSync' = [exSync EXCEPT ![c] = sync]
          /\ exPc' = [exPc EXCEPT ![c] = CascadeNext(sync, exFailed'[c])]
    /\ UNCHANGED <<exExercises, exNextId, exRecords, exEditing, exOpen, exToDelete, exSelected,
                   exCall>>
    /\ UNCHANGED <<exOps, emVars, eqVars, restVars>>

\* onDelete after `await supabase.from("exercise").delete()`: the result is not
\* read; setRecords((prev) => prev.filter((item) => item.id !== exerciseId))
DeleteLocal(records, id, error) == SeqFilterOut(records, id)

\* the delete of the exercise row resolves; then the record is dropped from the
\* list and setToDelete(null)
ExDeleteResolve(c) ==
    /\ exPc[c] = "delete_exercise"
    /\ \E error \in ExMayFail :
         /\ ExFault(error)
         /\ exExercises' = IF error THEN exExercises ELSE exExercises \ {exCall[c].id}
         /\ exFailed' = [exFailed EXCEPT ![c] = {}]
         /\ exRecords' = [exRecords EXCEPT ![c] = DeleteLocal(@, exCall[c].id, error)]
    /\ exSelected' = [exSelected EXCEPT ![c] = SelectionEffect(exRecords'[c], @)]
    /\ exToDelete' = [exToDelete EXCEPT ![c] = ExNull]
    /\ exSync' = [exSync EXCEPT ![c] = ExNoSync]
    /\ exPc' = [exPc EXCEPT ![c] = "idle"]
    /\ exCall' = [exCall EXCEPT ![c] = ExNoCall]
    /\ UNCHANGED <<exJoin, exNextId, exEditing, exOpen>>
    /\ UNCHANGED <<exOps, emVars, eqVars, restVars>>

\* the store at the start: exercise 1, with equipment 1 and movement pattern 1
ExSeedJoin ==
    [t \in ExTables |->
        [e \in ExIds |->
            [v \in ExValueIds(t) |->
                IF e = 1 /\ v = 1 /\ t # "exercise_muscle" THEN 1 ELSE 0]]]

\* every session has just mounted the page: nothing loaded, loadExercises in flight
ExInit ==
    /\ exExercises = {1}
    /\ exJoin = ExSeedJoin
    /\ exNextId = 2
    /\ exRecords = [c \in Clients |-> <<>>]
    /\ exEditing = [c \in Clients |-> ExNull]
    /\ exOpen = [c \in Clients |-> FALSE]
    /\ exToDelete = [c \in Clients |-> ExNull]
    /\ exSelected = [c \in Clients |-> 0]
    /\ exPc = [c \in Clients |-> "load"]
    /\ exCall = [c \in Clients |-> ExNoCall]
    /\ exSync = [c \in Clients |-> ExNoSync]
    /\ exFailed = [c \in Clients |-> {}]
    /\ exFaults = 0
    /\ exOps = 0

\* ExercisePage, one session using every control of the page
NextEx ==
    \E c \in {1} :
        \/ ExLoadResolve(c)
        \/ ExOpenEdit(c)
        \/ ExOpenNew(c)
        \/ ExCloseDialog(c)
        \/ ExSubmitStart(c)
        \/ ExWriteResolve(c)
        \/ \E t \in ExTables : ExSyncDelete(c, t)
        \/ \E t \in ExTables : ExSyncInsert(c, t)
        \/ ExReloadResolve(c)
        \/ ExAskDelete(c)
        \/ ExCancelDelete(c)
        \/ ExDeleteStart(c)
        \/ \E t \in ExTables : ExCascadeDelete(c, t)
        \/ ExDeleteResolve(c)

\* ExercisePage, one session creating, deleting and choosing exercises
NextExSelect ==
    \E c \in {1} :
        \/ ExLoadResolve(c)
        \/ ExOpenNew(c)
        \/ ExSelectExercise(c)
        \/ ExSubmitStart(c)
        \/ ExWriteResolve(c)
        \/ \E t \in ExTables : ExSyncDelete(c, t)
        \/ \E t \in ExTables : ExSyncInsert(c, t)
        \/ ExReloadResolve(c)
        \/ ExAskDelete(c)
        \/ ExDeleteStart(c)
        \/ \E t \in ExTables : ExCascadeDelete(c, t)
        \/ ExDeleteResolve(c)

\* ExercisePage, two sessions editing the same exercises
NextExRace ==
    \E c \in Clients :
        \/ ExLoadResolve(c)
        \/ ExOpenEdit(c)
        \/ ExSubmitStart(c)
        \/ ExWriteResolve(c)
        \/ \E t \in ExTables : ExSyncDelete(c, t)
        \/ \E t \in ExTables : ExSyncInsert(c, t)
        \/ ExReloadResolve(c)

(***************************************************************************)
(* EquipmentPage  (src/unnamed/part_000), one session                      *)
(***************************************************************************)
EqNames == {"aa", "bb"}    \* names that pass z.string().min(2)
EqNull == [id |-> 0, name |-> ""]
EqNoCall == [name |-> "", editing |-> EqNull, toDelete |-> EqNull]

\* submit ends with setOpen(false) on every path
SubmitCloses(wasOpen, error) == FALSE

\* the mount effect's fetch resolves: setItems(data || []); setLoading(false)
EqFetchResolve ==
    /\ eqPc = "load"
    /\ \E error \in BOOLEAN :
         /\ eqItems' = IF error THEN <<>> ELSE SortById(eqRows)
         /\ eqError' = error
    /\ eqLoading' = FALSE
    /\ eqPc' = "idle"
    /\ UNCHANGED <<eqRows, eqNextId, eqEditing, eqOpen, eqToDelete, eqCall>>
    /\ UNCHANGED <<emVars, exVars, restVars>>

EqNoModal == ~eqOpen /\ eqToDelete = EqNull

\* the row's pencil button: setEditing(x); form.reset({...x}); setOpen(true)
EqOpenEdit ==
    /\ EqNoModal
    /\ \E i \in 1..Len(eqItems) : eqEditing' = eqItems[i]
    /\ eqOpen' = TRUE
    /\ UNCHANGED <<eqRows, eqNextId, eqItems, eqToDelete, eqLoading, eqPc, eqCall, eqError>>
    /\ UNCHANGED <<emVars, exVars, restVars>>

\* "Nuevo": form.reset(); setEditing(null); setOpen(true)
EqOpenNew ==
    /\ EqNoModal
    /\ eqEditing' = EqNull
    /\ eqOpen' = TRUE
    /\ UNCHANGED <<eqRows, eqNextId, eqItems, eqToDelete, eqLoading, eqPc, eqCall, eqError>>
    /\ UNCHANGED <<emVars, exVars, restVars>>

\* onOpenChange(false): setOpen(false)
EqCloseDialog ==
    /\ eqOpen
    /\ eqOpen' = FALSE
    /\ UNCHANGED <<eqRows, eqNextId, eqItems, eqEditing, eqToDelete, eqLoading, eqPc, eqCall,
                   eqError>>
    /\ UNCHANGED <<emVars, exVars, restVars>>

\* the form is submitted with a valid name: submit runs to its await
EqSubmitStart ==
    /\ eqOpen
    /\ eqPc = "idle"
    /\ eqEditing.id = 0 => eqNextId <= MaxEqId
    /\ \E name \in EqNames :
         eqCall' = [name |-> name, editing |-> eqEditing, toDelete |-> EqNull]
    /\ eqPc' = "write"
    /\ UNCHANGED <<eqRows, eqNextId, eqItems, eqEditing, eqOpen, eqToDelete, eqLoading, eqError>>
    /\ UNCHANGED <<emVars, exVars, restVars>>

\* the update (editing?.id) or the insert resolves; then setOpen(false)
EqSubmitResolve ==
    /\ eqPc = "write"
    /\ LET editing == eqCall.editing
           name == eqCall.name
       IN \E error \in BOOLEAN :
            /\ eqError' = error
            /\ eqOpen' = SubmitCloses(eqOpen, error)
            /\ IF error
               THEN UNCHANGED <<eqRows, eqNextId, eqItems>>
               ELSE IF editing.id # 0
                    THEN /\ eqRows' = {IF r.id = editing.id THEN [r EXCEPT !.name = name]
                                       ELSE r : r \in eqRows}
                         /\ eqItems' = [i \in 1..Len(eqItems) |->
                                           IF eqItems[i].id = editing.id
                                           THEN [eqItems[i] EXCEPT !.name = name]
                                           ELSE eqItems[i]]
                         /\ UNCHANGED eqNextId
                    ELSE LET data == [id |-> eqNextId, name |-> name]
                         IN /\ eqRows' = eqRows \cup {data}
                            /\ eqNextId' = eqNextId + 1
                            /\ eqItems' = <<data>> \o eqItems
    /\ eqPc' = "idle"
    /\ eqCall' = EqNoCall
    /\ UNCHANGED <<eqEditing, eqToDelete, eqLoading>>
    /\ UNCHANGED <<emVars, exVars, restVars>>

\* the row's trash button: setToDelete(x)
EqAskDelete ==
    /\ EqNoModal
    /\ \E i \in 1..Len(eqItems) : eqToDelete' = eqItems[i]
    /\ UNCHANGED <<eqRows, eqNextId, eqItems, eqEditing, eqOpen, eqLoading, eqPc, eqCall,
                   eqError>>
    /\ UNCHANGED <<emVars, exVars, restVars>>

\* the delete dialog is dismissed: setToDelete(null)
EqCancelDelete ==
    /\ eqToDelete # EqNull
    /\ eqToDelete' = EqNull
    /\ UNCHANGED <<eqRows, eqNextId, eqItems, eqEditing, eqOpen, eqLoading, eqPc, eqCall,
                   eqError>>
    /\ UNCHANGED <<emVars, exVars, restVars>>

\* "Eliminar": onDelete runs to its await
EqDeleteStart ==
    /\ eqToDelete # EqNull
    /\ eqPc = "idle"
    /\ eqCall' = [EqNoCall EXCEPT !.toDelete = eqToDelete]
    /\ eqPc' = "delete"
    /\ UNCHANGED <<eqRows, eqNextId, eqItems, eqEditing, eqOpen, eqToDelete, eqLoading,
                   eqError>>
    /\ UNCHANGED <<emVars, exVars, restVars>>

\* the delete resolves: if (!error) setItems(filter); setToDelete(null)
EqDeleteResolve ==
    /\ eqPc = "delete"
    /\ \E error \in BOOLEAN :
         /\ eqError' = error
         /\ eqRows' = IF error THEN eqRows ELSE {r \in eqRows : r.id # eqCall.toDelete.id}
         /\ eqItems' = IF error THEN eqItems ELSE SeqFilterOut(eqItems, eqCall.toDelete.id)
    /\ eqToDelete' = EqNull
    /\ eqPc' = "idle"
    /\ eqCall' = EqNoCall
    /\ UNCHANGED <<eqNextId, eqEditing, eqOpen, eqLoading>>
    /\ UNCHANGED <<emVars, exVars, restVars>>

\* the page has just mounted on a table of one row
EqInit ==
    /\ eqRows = {[id |-> 1, name |-> "aa"]}
    /\ eqNextId = 2
    /\ eqItems = <<>>
    /\ eqEditing = EqNull
    /\ eqOpen = FALSE
    /\ eqToDelete = EqNull
    /\ eqLoading = TRUE
    /\ eqPc = "load"
    /\ eqCall = EqNoCall
    /\ eqError = FALSE

NextEq ==
    \/ EqFetchResolve
    \/ EqOpenEdit
    \/ EqOpenNew
    \/ EqCloseDialog
    \/ EqSubmitStart
    \/ EqSubmitResolve
    \/ EqAskDelete
    \/ EqCancelDelete
    \/ EqDeleteStart
    \/ EqDeleteResolve

(***************************************************************************)
(* MuscleSubgroupPage: src/app/(admin)/muscle-subgroup/page.tsx.           *)
(*                                                                         *)
(* Here a call to the store is two steps, so that what happens between the *)
(* store running a query and the page reading its answer is visible: the   *)
(* store executes the request ("sent" -> "answered", the answer being      *)
(* fixed at that moment), and later the answer reaches the handler, which  *)
(* runs on to its next await.  The "Guardar" button is never disabled and  *)
(* the delete dialog's button is independent of the form, so a submit and  *)
(* an onDelete can be in flight together in the one session; the model     *)
(* explores one submit and one onDelete in flight at a time.  group_id and *)
(* the group list take part in no property and are left out.               *)
(***************************************************************************)
MaxMsId == 2          \* the store hands out muscle_subgroup ids 1..MaxMsId
MaxMsOps == 2         \* submit / onDelete runs of the muscle-subgroup page
MsNames == {"aa", "bb"}
MsNull == [id |-> 0, name |-> ""]
MsNoLoad == [st |-> "done", data |-> <<>>]
MsNoSubmit == [st |-> "idle", editing |-> MsNull, name |-> "", error |-> FALSE, data |-> <<>>]
MsNoDelete == [st |-> "idle", toDelete |-> MsNull]

\* the collation of .order("name"): "aa" sorts before "bb"
NameRank(n) == IF n = "aa" THEN 1 ELSE 2

\* .order("name", { ascending: true }); rows of one name come in id order
RECURSIVE SortByName(_)
SortByName(S) ==
    IF S = {} THEN <<>>
    ELSE LET m == CHOOSE r \in S :
                    \A o \in S : \/ NameRank(r.name) < NameRank(o.name)
                                 \/ NameRank(r.name) = NameRank(o.name) /\ r.id <= o.id
         IN <<m>> \o SortByName(S \ {m})

\* what a select on muscle_subgroup answers when the store executes it
MsSelect(rows, error) == IF error THEN <<>> ELSE SortByName(rows)

\* the list after loadSubgroups has read its answer: setRecords(data || [])
MsAfterLoad(records, data) == data

MsAfterDeleteKeeping(records, id) == records

\* the list after onDelete has resumed: prev.filter(item => item.id !== toDelete.id)
MsAfterDelete(records, id) == SeqFilterOut(records, id)

MsMayFail(error) == error => msFaults < MaxFaults
MsFault(error) == msFaults' = IF error THEN msFaults + 1 ELSE msFaults

\* the store executes the select of the mount effect's loadSubgroups()
MsLoadExec ==
    /\ msLoad.st = "sent"
    /\ \E error \in BOOLEAN :
         /\ MsMayFail(error)
         /\ MsFault(error)
         /\ msLoad' = [st |-> "answered", data |-> MsSelect(msRows, error)]
    /\ UNCHANGED <<msRows, msNextId, msRecords, msEditing, msOpen, msToDelete, msSubmit,
                   msDel, msOverlap, msOps>>
    /\ UNCHANGED <<emVars, exVars, eqVars, muVars, fnVars>>

\* the mount effect's loadSubgroups() reads its answer
MsLoadDeliver ==
    /\ msLoad.st = "answered"
    /\ msRecords' = MsAfterLoad(msRecords, msLoad.data)
    /\ msLoad' = MsNoLoad
    /\ UNCHANGED <<msRows, msNextId, msEditing, msOpen, msToDelete, msSubmit, msDel,
                   msFaults, msOverlap, msOps>>
    /\ UNCHANGED <<emVars, exVars, eqVars, muVars, fnVars>>

\* the pencil button of a row: setEditing(item); setOpen(true)
MsOpenEdit ==
    /\ ~msOpen /\ msToDelete = MsNull
    /\ \E i \in 1..Len(msRecords) : msEditing' = msRecords[i]
    /\ msOpen' = TRUE
    /\ UNCHANGED <<msRows, msNextId, msRecords, msToDelete, msLoad, msSubmit, msDel,
                   msFaults, msOverlap, msOps>>
    /\ UNCHANGED <<emVars, exVars, eqVars, muVars, fnVars>>

\* "Nuevo": setEditing(null); setOpen(true)
MsOpenNew ==
    /\ ~msOpen /\ msToDelete = MsNull
    /\ msEditing' = MsNull
    /\ msOpen' = TRUE
    /\ UNCHANGED <<msRows, msNextId, msRecords, msToDelete, msLoad, msSubmit, msDel,
                   msFaults, msOverlap, msOps>>
    /\ UNCHANGED <<emVars, exVars, eqVars, muVars, fnVars>>

\* "Cancelar", Escape or a click outside: onOpenChange={setOpen}, editing stays
MsCloseDialog ==
    /\ msOpen
    /\ msOpen' = FALSE
    /\ UNCHANGED <<msRows, msNextId, msRecords, msEditing, msToDelete, msLoad, msSubmit,
                   msDel, msFaults, msOverlap, msOps>>
    /\ UNCHANGED <<emVars, exVars, eqVars, muVars, fnVars>>

\* "Guardar": submit(values) runs to its first await, the update or the insert
MsSubmitStart ==
    /\ msOpen /\ msSubmit.st = "idle"
    /\ msOps < MaxMsOps
    /\ msEditing = MsNull => msNextId <= MaxMsId
    /\ \E name \in MsNames :
         msSubmit' = [st |-> "write_sent", editing |-> msEditing, name |-> name,
                      error |-> FALSE, data |-> <<>>]
    /\ msOverlap' = (msOverlap \/ msLoad.st # "done" \/ msDel.st # "idle")
    /\ msOps' = msOps + 1
    /\ UNCHANGED <<msRows, msNextId, msRecords, msEditing, msOpen, msToDelete, msLoad,
                   msDel, msFaults>>
    /\ UNCHANGED <<emVars, exVars, eqVars, muVars, fnVars>>

\* the store executes the update (.eq("id", editing.id)) or the insert
MsWriteExec ==
    /\ msSubmit.st = "write_sent"
    /\ \E error \in BOOLEAN :
         /\ MsMayFail(error)
         /\ MsFault(error)
         /\ msSubmit' = [msSubmit EXCEPT !.st = "write_answered", !.error = error]
         /\ IF error
              THEN UNCHANGED <<msRows, msNextId>>
              ELSE IF msSubmit.editing.id # 0
                     THEN /\ msRows' = {IF r.id = msSubmit.editing.id
                                           THEN [r EXCEPT !.name = msSubmit.name] ELSE r :
                                        r \in msRows}
                          /\ UNCHANGED msNextId
                     ELSE /\ msRows' = msRows \cup {[id |-> msNextId, name |-> msSubmit.name]}
                          /\ msNextId' = msNextId + 1
    /\ UNCHANGED <<msRecords, msEditing, msOpen, msToDelete, msLoad, msDel, msOverlap, msOps>>
    /\ UNCHANGED <<emVars, exVars, eqVars, muVars, fnVars>>

\* submit reads the answer of its write: on success it calls loadSubgroups(),
\* otherwise it goes straight to setOpen(false); setEditing(null)
MsWriteDeliver ==
    /\ msSubmit.st = "write_answered"
    /\ IF msSubmit.error
         THEN /\ msSubmit' = MsNoSubmit
              /\ msOpen' = FALSE
              /\ msEditing' = MsNull
         ELSE /\ msSubmit' = [msSubmit EXCEPT !.st = "load_sent"]
              /\ UNCHANGED <<msOpen, msEditing>>
    /\ UNCHANGED <<msRows, msNextId, msRecords, msToDelete, msLoad, msDel, msFaults,
                   msOverlap, msOps>>
    /\ UNCHANGED <<emVars, exVars, eqVars, muVars, fnVars>>

\* the store executes the select of submit's loadSubgroups()
MsReloadExec ==
    /\ msSubmit.st = "load_sent"
    /\ \E error \in BOOLEAN :
         /\ MsMayFail(error)
         /\ MsFault(error)
         /\ msSubmit' = [msSubmit EXCEPT !.st = "load_answered",
                                         !.data = MsSelect(msRows, error)]
    /\ UNCHANGED <<msRows, msNextId, msRecords, msEditing, msOpen, msToDelete, msLoad,
                   msDel, msOverlap, msOps>>
    /\ UNCHANGED <<emVars, exVars, eqVars, muVars, fnVars>>

\* submit's loadSubgroups() reads its answer, then setOpen(false); setEditing(null)
MsReloadDeliver ==
    /\ msSubmit.st = "load_answered"
    /\ msRecords' = MsAfterLoad(msRecords, msSubmit.data)
    /\ msOpen' = FALSE
    /\ msEditing' = MsNull
    /\ msSubmit' = MsNoSubmit
    /\ UNCHANGED <<msRows, msNextId, msToDelete, msLoad, msDel, msFaults, msOverlap, msOps>>
    /\ UNCHANGED <<emVars, exVars, eqVars, muVars, fnVars>>

\* the trash button of a row: setToDelete(item)
MsAskDelete ==
    /\ ~msOpen /\ msToDelete = MsNull
    /\ \E i \in 1..Len(msRecords) : msToDelete' = msRecords[i]
    /\ UNCHANGED <<msRows, msNextId, msRecords, msEditing, msOpen, msLoad, msSubmit, msDel,
                   msFaults, msOverlap, msOps>>
    /\ UNCHANGED <<emVars, exVars, eqVars, muVars, fnVars>>

\* "Cancelar" of the delete dialog: setToDelete(null)
MsCancelDelete ==
    /\ msToDelete # MsNull
    /\ msToDelete' = MsNull
    /\ UNCHANGED <<msRows, msNextId, msRecords, msEditing, msOpen, msLoad, msSubmit, msDel,
                   msFaults, msOverlap, msOps>>
    /\ UNCHANGED <<emVars, exVars, eqVars, muVars, fnVars>>

\* "Eliminar": onDelete runs to its await, the delete of toDelete.id
MsDeleteStart ==
    /\ msToDelete # MsNull /\ msDel.st = "idle"
    /\ msOps < MaxMsOps
    /\ msDel' = [st |-> "sent", toDelete |-> msToDelete]
    /\ msOverlap' = (msOverlap \/ msLoad.st # "done" \/ msSubmit.st # "idle")
    /\ msOps' = msOps + 1
    /\ UNCHANGED <<msRows, msNextId, msRecords, msEditing, msOpen, msToDelete, msLoad,
                   msSubmit, msFaults>>
    /\ UNCHANGED <<emVars, exVars, eqVars, muVars, fnVars>>

\* the store executes the delete
MsDeleteExec ==
    /\ msDel.st = "sent"
    /\ \E error \in BOOLEAN :
         /\ MsMayFail(error)
         /\ MsFault(error)
         /\ msRows' = IF error THEN msRows ELSE {r \in msRows : r.id # msDel.toDelete.id}
    /\ msDel' = [msDel EXCEPT !.st = "answered"]
    /\ UNCHANGED <<msNextId, msRecords, msEditing, msOpen, msToDelete, msLoad, msSubmit,
                   msOverlap, msOps>>
    /\ UNCHANGED <<emVars, exVars, eqVars, muVars, fnVars>>

\* onDelete resumes; it does not read the answer: the record leaves the list
\* and setToDelete(null)
MsDeleteDeliver ==
    /\ msDel.st = "answered"
    /\ msRecords' = MsAfterDelete(msRecords, msDel.toDelete.id)
    /\ msToDelete' = MsNull
    /\ msDel' = MsNoDelete
    /\ UNCHANGED <<msRows, msNextId, msEditing, msOpen, msLoad, msSubmit, msFaults,
                   msOverlap, msOps>>
    /\ UNCHANGED <<emVars, exVars, eqVars, muVars, fnVars>>

\* the table holds one subgroup when the page is mounted; the mount effect
\* has called loadSubgroups()
MsInit ==
    /\ msRows = {[id |-> 1, name |-> "bb"]}
    /\ msNextId = 2
    /\ msRecords = <<>>
    /\ msEditing = MsNull
    /\ msOpen = FALSE
    /\ msToDelete = MsNull
    /\ msLoad = [st |-> "sent", data |-> <<>>]
    /\ msSubmit = MsNoSubmit
    /\ msDel = MsNoDelete
    /\ msFaults = 0
    /\ msOverlap = FALSE
    /\ msOps = 0

NextMs ==
    \/ MsLoadExec
    \/ MsLoadDeliver
    \/ MsOpenEdit
    \/ MsOpenNew
    \/ MsCloseDialog
    \/ MsSubmitStart
    \/ MsWriteExec
    \/ MsWriteDeliver
    \/ MsReloadExec
    \/ MsReloadDeliver
    \/ MsAskDelete
    \/ MsCancelDelete
    \/ MsDeleteStart
    \/ MsDeleteExec
    \/ MsDeleteDeliver

(***************************************************************************)
(* MuscleCatalogPage: src/app/(admin)/muscle/page.tsx.                     *)
(*                                                                         *)
(* One session; a step is the store executing the awaited call together    *)
(* with the handler running on to its end.  The muscle groups are taken as *)
(* loaded and non-empty (handleNew refuses to open the form otherwise);    *)
(* group_id is carried by the form values only; the rows keep id and name. *)
(***************************************************************************)
MaxMuId == 3          \* the store hands out muscle ids 1..MaxMuId
MaxMuOps == 3         \* submit / onDelete runs of the muscle page
MuNames == {"aa", "bb"}
MuNull == [id |-> 0, name |-> ""]
MuNoCall == [editing |-> MuNull, name |-> "", group_id |-> 0, toDelete |-> MuNull]

\* what the form can hold when "Guardar" is pressed: a name of two
\* characters or of one, a group of the select or the default 0
MuFormValues == [name : MuNames \cup {"a"}, group_id : {0, 1}]

MuSchemaAcceptsAll(values) == {}

\* the resolver of schema: name is a string of at least 2 characters,
\* group_id an integer of at least 1; the fields that fail
MuSchemaErrors(values) ==
    {f \in {"name"} : Len(values.name) < 2} \cup {f \in {"group_id"} : values.group_id < 1}

\* mapRecord applied to a row the store returned
MuMapRecord(row) == [id |-> row.id, name |-> row.name]

MuAfterInsertAppended(records, created) == Append(records, created)

\* setRecords(prev => [created, ...prev])
MuAfterInsert(records, created) == <<created>> \o records

\* setRecords(prev => prev.map(item => item.id === updated.id ? updated : item))
RECURSIVE MuAfterUpdate(_, _)
MuAfterUpdate(records, updated) ==
    IF records = <<>> THEN <<>>
    ELSE <<IF Head(records).id = updated.id THEN updated ELSE Head(records)>>
         \o MuAfterUpdate(Tail(records), updated)

MuMayFail(error) == error => muFaults < MaxFaults
MuFault(error) == muFaults' = IF error THEN muFaults + 1 ELSE muFaults
MuNoModal == ~muOpen /\ muToDelete = MuNull /\ muPc = "idle"

\* fetchAll of the mount effect resolves: on muscleError a toast and the list
\* is left alone, otherwise the rows in name order
MuFetchResolve ==
    /\ muPc = "load"
    /\ \E error \in BOOLEAN :
         /\ MuMayFail(error)
         /\ MuFault(error)
         /\ IF error
              THEN /\ muToast' = "No se pudieron cargar los musculos."
                   /\ UNCHANGED muRecords
              ELSE /\ muRecords' = SortByName(muRows)
                   /\ UNCHANGED muToast
    /\ muPc' = "idle"
    /\ UNCHANGED <<muRows, muNextId, muEditing, muOpen, muToDelete, muCall, muOps>>
    /\ UNCHANGED muErrors
    /\ UNCHANGED <<emVars, exVars, eqVars, msVars, fnVars>>

\* the pencil button of a row: setEditing(item); form.reset(...), which also
\* clears the form's errors; setOpen(true)
MuOpenEdit ==
    /\ MuNoModal
    /\ \E i \in 1..Len(muRecords) : muEditing' = muRecords[i]
    /\ muOpen' = TRUE
    /\ UNCHANGED <<muRows, muNextId, muRecords, muToDelete, muPc, muCall, muFaults,
                   muToast, muOps>>
    /\ muErrors' = {}
    /\ UNCHANGED <<emVars, exVars, eqVars, msVars, fnVars>>

\* "Nuevo": handleNew, the groups being loaded
MuOpenNew ==
    /\ MuNoModal
    /\ muEditing' = MuNull
    /\ muOpen' = TRUE
    /\ UNCHANGED <<muRows, muNextId, muRecords, muToDelete, muPc, muCall, muFaults,
                   muToast, muOps>>
    /\ muErrors' = {}
    /\ UNCHANGED <<emVars, exVars, eqVars, msVars, fnVars>>

\* handleDialogChange(false): setOpen(false); setEditing(null)
MuCloseDialog ==
    /\ muOpen /\ muPc = "idle"
    /\ muOpen' = FALSE
    /\ muEditing' = MuNull
    /\ UNCHANGED <<muRows, muNextId, muRecords, muToDelete, muPc, muCall, muFaults,
                   muToast, muOps>>
    /\ UNCHANGED muErrors
    /\ UNCHANGED <<emVars, exVars, eqVars, msVars, fnVars>>

\* "Guardar": form.handleSubmit(submit) runs the resolver on the form values.
\* With errors it records them and stops there; without, it clears them and
\* submit(values) runs to its await.
MuSubmitStart ==
    /\ muOpen /\ muPc = "idle"
    /\ \E values \in MuFormValues :
         IF MuSchemaErrors(values) # {}
           THEN /\ muErrors' = MuSchemaErrors(values)
                /\ UNCHANGED <<muCall, muPc, muOps>>
           ELSE /\ muOps < MaxMuOps
                /\ muEditing = MuNull => muNextId <= MaxMuId
                /\ muErrors' = {}
                /\ muCall' = [editing |-> muEditing, name |-> values.name,
                              group_id |-> values.group_id, toDelete |-> MuNull]
                /\ muPc' = "write"
                /\ muOps' = muOps + 1
    /\ UNCHANGED <<muRows, muNextId, muRecords, muEditing, muOpen, muToDelete, muFaults,
                   muToast>>
    /\ UNCHANGED <<emVars, exVars, eqVars, msVars, fnVars>>

\* the update or insert, each with .select().single(), resolves and submit
\* runs to its end: on error a toast and return; otherwise the list is
\* patched with the row the store returned, a toast, and the dialog closes.
\* .single() on an update that matched no row is an error.
MuSubmitResolve ==
    /\ muPc = "write"
    /\ \E fail \in BOOLEAN :
         /\ MuMayFail(fail)
         /\ MuFault(fail)
         /\ IF muCall.editing.id # 0
              THEN LET error == fail \/ muCall.editing.id \notin {r.id : r \in muRows}
                       data == [id |-> muCall.editing.id, name |-> muCall.name]
                   IN /\ muRows' = IF error THEN muRows
                                   ELSE {IF r.id = data.id THEN data ELSE r : r \in muRows}
                      /\ UNCHANGED muNextId
                      /\ IF error
                           THEN /\ muToast' = "No se pudo actualizar el musculo."
                                /\ UNCHANGED <<muRecords, muOpen, muEditing>>
                           ELSE /\ muRecords' = MuAfterUpdate(muRecords, MuMapRecord(data))
                                /\ muToast' = "Musculo actualizado."
                                /\ muOpen' = FALSE
                                /\ muEditing' = MuNull
              ELSE LET data == [id |-> muNextId, name |-> muCall.name]
                   IN /\ muRows' = IF fail THEN muRows ELSE muRows \cup {data}
                      /\ muNextId' = IF fail THEN muNextId ELSE muNextId + 1
                      /\ IF fail
                           THEN /\ muToast' = "No se pudo crear el musculo."
                                /\ UNCHANGED <<muRecords, muOpen, muEditing>>
                           ELSE /\ muRecords' = MuAfterInsert(muRecords, MuMapRecord(data))
                                /\ muToast' = "Musculo creado."
                                /\ muOpen' = FALSE
                                /\ muEditing' = MuNull
    /\ muPc' = "idle"
    /\ muCall' = MuNoCall
    /\ UNCHANGED <<muToDelete, muOps>>
    /\ UNCHANGED muErrors
    /\ UNCHANGED <<emVars, exVars, eqVars, msVars, fnVars>>

\* the trash button of a row: setToDelete(item)
MuAskDelete ==
    /\ MuNoModal
    /\ \E i \in 1..Len(muRecords) : muToDelete' = muRecords[i]
    /\ UNCHANGED <<muRows, muNextId, muRecords, muEditing, muOpen, muPc, muCall, muFaults,
                   muToast, muOps>>
    /\ UNCHANGED muErrors
    /\ UNCHANGED <<emVars, exVars, eqVars, msVars, fnVars>>

\* "Cancelar" of the delete dialog: setToDelete(null)
MuCancelDelete ==
    /\ muToDelete # MuNull /\ muPc = "idle"
    /\ muToDelete' = MuNull
    /\ UNCHANGED <<muRows, muNextId, muRecords, muEditing, muOpen, muPc, muCall, muFaults,
                   muToast, muOps>>
    /\ UNCHANGED muErrors
    /\ UNCHANGED <<emVars, exVars, eqVars, msVars, fnVars>>

\* "Eliminar": onDelete runs to its await
MuDeleteStart ==
    /\ muToDelete # MuNull /\ muPc = "idle"
    /\ muOps < MaxMuOps
    /\ muCall' = [editing |-> MuNull, name |-> "", group_id |-> 0, toDelete |-> muToDelete]
    /\ muPc' = "delete"
    /\ muOps' = muOps + 1
    /\ UNCHANGED <<muRows, muNextId, muRecords, muEditing, muOpen, muToDelete, muFaults,
                   muToast>>
    /\ UNCHANGED muErrors
    /\ UNCHANGED <<emVars, exVars, eqVars, msVars, fnVars>>

\* the delete resolves: on error a toast and return, otherwise the record
\* leaves the list, a toast, and setToDelete(null)
MuDeleteResolve ==
    /\ muPc = "delete"
    /\ \E error \in BOOLEAN :
         /\ MuMayFail(error)
         /\ MuFault(error)
         /\ IF error
              THEN /\ muToast' = "No se pudo eliminar el musculo."
                   /\ UNCHANGED <<muRows, muRecords, muToDelete>>
              ELSE /\ muRows' = {r \in muRows : r.id # muCall.toDelete.id}
                   /\ muRecords' = SeqFilterOut(muRecords, muCall.toDelete.id)
                   /\ muToast' = "Musculo eliminado."
                   /\ muToDelete' = MuNull
    /\ muPc' = "idle"
    /\ muCall' = MuNoCall
    /\ UNCHANGED <<muNextId, muEditing, muOpen, muOps>>
    /\ UNCHANGED muErrors
    /\ UNCHANGED <<emVars, exVars, eqVars, msVars, fnVars>>

\* the table holds one muscle when the page is mounted; fetchAll is in flight
MuInit ==
    /\ muRows = {[id |-> 1, name |-> "bb"]}
    /\ muNextId = 2
    /\ muRecords = <<>>
    /\ muEditing = MuNull
    /\ muOpen = FALSE
    /\ muToDelete = MuNull
    /\ muPc = "load"
    /\ muCall = MuNoCall
    /\ muFaults = 0
    /\ muToast = ""
    /\ muOps = 0
    /\ muErrors = {}

NextMu ==
    \/ MuFetchResolve
    \/ MuOpenEdit
    \/ MuOpenNew
    \/ MuCloseDialog
    \/ MuSubmitStart
    \/ MuSubmitResolve
    \/ MuAskDelete
    \/ MuCancelDelete
    \/ MuDeleteStart
    \/ MuDeleteResolve

(***************************************************************************)
(* The two derived values every list page computes on each render,         *)
(* `paginated` / `totalPages` and `filtered`, taken as functions of their  *)
(* inputs: a run draws the inputs and applies the function.                *)
(***************************************************************************)
MaxPgLen == 23        \* longest filtered list drawn
MaxPgSize == 3        \* page sizes 1..MaxPgSize are drawn besides PAGE_SIZE
MaxFlRows == 2        \* longest list of rows drawn for a filter
MaxFlQuery == 3       \* longest search text drawn

PgSizes == (1..MaxPgSize) \cup {PAGE_SIZE}
PgLists == {[i \in 1..n |-> i] : n \in 0..MaxPgLen}

Min(a, b) == IF a < b THEN a ELSE b

\* rangeStart and rangeEnd of the admin pages: 0 when filtered is empty
RangeStart(filtered, page, size) ==
    IF Len(filtered) # 0 THEN (page - 1) * size + 1 ELSE 0
RangeEnd(filtered, page, size) ==
    IF Len(filtered) # 0 THEN Min(page * size, Len(filtered)) ELSE 0

\* the footer of an admin page: rangeStart, rangeEnd, filtered.length
PageFooter(filtered, page, size) ==
    <<RangeStart(filtered, page, size), RangeEnd(filtered, page, size), Len(filtered)>>

\* the footer of ExercisesCatalog, which writes the two expressions inline,
\* without the test of filtered.length
CatalogFooter(filtered, page, size) ==
    <<(page - 1) * size + 1, Min(page * size, Len(filtered)), Len(filtered)>>

PgKinds == {"page", "catalog"}

\* a render of the component pgKind whose list is pgF and whose page size is
\* pgSize, on one of the pages the buttons can reach: paginated, totalPages
\* and the footer
PgRender ==
    /\ \E k \in 1..TotalPages(pgF, pgSize) :
         /\ pgPage' = k
         /\ pgSlice' = Paginated(pgF, k, pgSize)
         /\ pgFooter' = IF pgKind = "catalog" THEN CatalogFooter(pgF, k, pgSize)
                        ELSE PageFooter(pgF, k, pgSize)
    /\ pgTotal' = TotalPages(pgF, pgSize)
    /\ UNCHANGED <<pgF, pgSize, pgKind, flKind, flRows, flQuery, flResult, flDone>>
    /\ UNCHANGED <<rlKind, rlValue, rlName, rlDone>>
    /\ UNCHANGED <<emVars, exVars, eqVars, msVars, muVars>>

\* nothing rendered yet
PgRest == pgPage = 0 /\ pgSlice = <<>> /\ pgTotal = 0 /\ pgFooter = <<0, 0, 0>>

PgInit == pgF \in PgLists /\ pgSize \in PgSizes /\ pgKind \in PgKinds /\ PgRest

\* the characters search texts and names are drawn from
FlChars == {"a", "b", "A", " "}
FlTexts(n) == UNION {[1..k -> FlChars] : k \in 0..n}
FlLists(S) == UNION {[1..k -> S] : k \in 0..MaxFlRows}

\* users of the users page: name and email
FlUsers == [name : {<<"A">>, <<"a", "b">>}, email : {<<"b">>, <<"b", "a">>}]

\* lists of records of the exercise-muscle page, ids in load order
FlRecordLists ==
    {[i \in 1..Len(l) |-> [id |-> i, exercise_id |-> "exA", muscle_id |-> l[i][1],
                           role |-> l[i][2]]] : l \in FlLists(Muscles \X Roles)}

\* filtered of the users page: q = search.toLowerCase(); a user is kept if
\* `${u.name} ${u.email}`.toLowerCase() includes q
UsersFiltered(users, search) ==
    LET q == ToLower(search)
        keep(u) == Includes(ToLower(u.name \o <<" ">> \o u.email), q)
    IN SeqFilter(users, {i \in 1..Len(users) : keep(users[i])})

\* a render of the page flKind with the rows flRows and the search text
\* flQuery: filtered
FlRender ==
    /\ ~flDone
    /\ flDone' = TRUE
    /\ flResult' = IF flKind = "users" THEN UsersFiltered(flRows, flQuery)
                   ELSE EmFiltered(flRows, flQuery)
    /\ UNCHANGED <<flKind, flRows, flQuery, pgF, pgSize, pgPage, pgSlice, pgTotal,
                   pgKind, pgFooter>>
    /\ UNCHANGED <<rlKind, rlValue, rlName, rlDone>>
    /\ UNCHANGED <<emVars, exVars, eqVars, msVars, muVars>>

\* no list filtered
FlRest == flKind = "users" /\ flRows = <<>> /\ flQuery = <<>> /\ flResult = <<>> /\ flDone = FALSE

FlInit ==
    /\ flKind \in {"users", "exercise-muscle"}
    /\ flRows \in IF flKind = "users" THEN FlLists(FlUsers) ELSE FlRecordLists
    /\ flQuery \in FlTexts(MaxFlQuery)
    /\ flResult = <<>>
    /\ flDone = FALSE

(***************************************************************************)
(* The row mappers, taken as functions of the related side of a row.  The  *)
(* store returns a to-one relation as null, as an object or as an array;   *)
(* a value is written [shape, items], items holding the object or the      *)
(* elements of the array.  A related record that is absent is <<>>.        *)
(***************************************************************************)
MaxRlLen == 2         \* longest array drawn for a related side

RlNames == {"aa", "bb", "cc"}
RlRecords == [name : RlNames]
RlValues ==
    {[shape |-> "null", items |-> <<>>]}
    \cup {[shape |-> "object", items |-> <<r>>] : r \in RlRecords}
    \cup {[shape |-> "array", items |-> a] :
            a \in UNION {[1..k -> RlRecords] : k \in 0..MaxRlLen}}

\* if (!value) return undefined; return Array.isArray(value) ? value[0] : value
NormalizeRelation(value) ==
    IF value.shape = "null" THEN <<>>
    ELSE IF value.shape = "array"
           THEN IF Len(value.items) > 0 THEN <<value.items[1]>> ELSE <<>>
           ELSE <<value.items[1]>>

\* related?.name ?? fallback, related being a record or undefined / null
OptionalName(related, fallback) ==
    IF related = <<>> THEN fallback ELSE related[1].name

\* buildSubgroup: group: Array.isArray(item.group) ? item.group[0] ?? null
\*                                                : item.group ?? null
BuildSubgroup(value) ==
    IF value.shape = "array"
      THEN IF Len(value.items) > 0 THEN <<value.items[1]>> ELSE <<>>
      ELSE IF value.shape = "null" THEN <<>> ELSE <<value.items[1]>>

\* item.exercise?.name_es ?? fallback, the value read as it arrived: an array
\* has no such property, so the read gives undefined
UnnormalizedName(value, fallback) ==
    IF value.shape = "object" THEN value.items[1].name ELSE fallback

RlKinds == {"exercise-muscle", "muscle", "muscle-subgroup", "exercise-muscle-subgroup",
            "exercise-movement-pattern"}

\* the text a page shows when the row has no related record
RlFallback(kind) ==
    CASE kind = "exercise-muscle" -> ""
      [] kind = "muscle" -> "Sin grupo"
      [] kind = "muscle-subgroup" -> "-"
      [] kind = "exercise-muscle-subgroup" -> ""
      [] kind = "exercise-movement-pattern" -> "Sin nombre"

\* the related name of a row of the page `kind` whose related side is `value`
RelatedName(kind, value) ==
    CASE kind = "exercise-muscle" -> OptionalName(NormalizeRelation(value), "")
      [] kind = "muscle" -> OptionalName(NormalizeRelation(value), "Sin grupo")
      [] kind = "muscle-subgroup" -> OptionalName(BuildSubgroup(value), "-")
      [] kind = "exercise-muscle-subgroup" -> UnnormalizedName(value, "")
      [] kind = "exercise-movement-pattern" -> UnnormalizedName(value, "Sin nombre")

\* the load of the page rlKind maps a row whose related side is rlValue
RlMap ==
    /\ rlDone = FALSE
    /\ rlDone' = TRUE
    /\ rlName' = RelatedName(rlKind, rlValue)
    /\ UNCHANGED <<rlKind, rlValue>>
    /\ UNCHANGED <<pgF, pgSize, pgPage, pgSlice, pgTotal, pgKind, pgFooter>>
    /\ UNCHANGED <<flKind, flRows, flQuery, flResult, flDone>>
    /\ UNCHANGED <<emVars, exVars, eqVars, msVars, muVars>>

\* no row mapped
RlRest ==
    /\ rlKind = "muscle" /\ rlValue = [shape |-> "null", items |-> <<>>]
    /\ rlName = "" /\ rlDone = FALSE

RlInit == rlKind \in RlKinds /\ rlValue \in RlValues /\ rlName = "" /\ rlDone = FALSE

NextPg == PgRender
NextFl == FlRender
NextRl == RlMap

(***************************************************************************)
(* Specifications: one page at a time, the other pages at rest.            *)
(***************************************************************************)
PgIdle == PgRest /\ pgF = <<>> /\ pgSize = PAGE_SIZE /\ pgKind = "page"
RestInit == MsInit /\ MuInit /\ PgIdle /\ FlRest /\ RlRest
Init == EmInit /\ ExInit /\ EqInit /\ RestInit
InitSeeded == EmInitSeeded /\ ExInit /\ EqInit /\ RestInit
InitPaging == EmInitPaging /\ ExInit /\ EqInit /\ RestInit
InitPg == EmInit /\ ExInit /\ EqInit /\ MsInit /\ MuInit /\ PgInit /\ FlRest /\ RlRest
InitFl == EmInit /\ ExInit /\ EqInit /\ MsInit /\ MuInit /\ PgIdle /\ FlInit /\ RlRest
InitRl == EmInit /\ ExInit /\ EqInit /\ MsInit /\ MuInit /\ PgIdle /\ FlRest /\ RlInit

SpecEM == Init /\ [][NextEM]_vars
SpecEMRace == InitSeeded /\ [][NextEMRace]_vars
SpecEMDouble == Init /\ [][NextEMDouble]_vars
\* the edit flow of one session, every awaited store call being answered
SpecEMLive ==
    /\ InitSeeded /\ [][NextEMEdit]_vars
    /\ WF_vars(EmCheckResolve(1)) /\ WF_vars(EmWriteResolve(1))
SpecEMPaging == InitPaging /\ [][NextEMPaging]_vars
SpecEx == Init /\ [][NextEx]_vars
SpecExRace == Init /\ [][NextExRace]_vars
SpecExSelect == Init /\ [][NextExSelect]_vars
SpecEq == Init /\ [][NextEq]_vars
SpecMs == Init /\ [][NextMs]_vars
SpecMu == Init /\ [][NextMu]_vars
SpecPg == InitPg /\ [][NextPg]_vars
SpecRl == InitRl /\ [][NextRl]_vars
SpecFl == InitFl /\ [][NextFl]_vars
(***************************************************************************)
(* Properties of ExerciseMusclePage.                                       *)
(***************************************************************************)
\* another row than the one being edited carries the submitted triple
EmOtherRowHasTriple(rows, values, editing) ==
    \E r \in rows : Triple(r) = Triple(values) /\ r.id # editing.id

\* C1: when the count query of a submit finds a row with the submitted
\* (exercise_id, muscle_id, role) other than the row being edited, the submit
\* ends there: no update or insert is issued, the table and the session's
\* records are unchanged, and the dialog is left as it was.
DuplicateGuardRejects ==
    [][\A c \in Clients :
          (/\ emPc[c] = "check"
           /\ emPc'[c] # "check"
           /\ EmOtherRowHasTriple(emRows, emCall[c].values, emCall[c].editing))
          => /\ emPc'[c] = "idle"
             /\ emRows' = emRows
             /\ emNextId' = emNextId
             /\ emRecords'[c] = emRecords[c]
             /\ emOpen'[c] = emOpen[c]]_vars

\* C1, its case: a submit has just been rejected because the count query, which
\* did not fail, found another row with the triple
DuplicateGuardRejectsWitness ==
    \E c \in Clients :
        /\ emPc[c] = "idle"
        /\ emToast[c] = <<"La combinacion ya existe">>
        /\ emOpen[c]
        /\ Len(emRecords[c]) = 2

\* C2: in the create flow ("Nuevo", the multi-select form, "Crear Relaciones")
\* a submission that carries a triple some row of the table already has is
\* rejected: the table does not change.
CreateFlowRejectsDuplicate ==
    [][\A c \in Clients :
          (/\ emPc[c] = "multi"
           /\ emPc'[c] # "multi"
           /\ \E i \in 1..Len(emCall[c].relations) :
                \E r \in emRows : Triple(r) = Triple(emCall[c].relations[i]))
          => emRows' = emRows]_vars

\* C3: an edit that submits the row's own unchanged triple, which no other
\* row carries, passes the duplicate check when the count query answers: the
\* update is issued.
SelfExclusionAccepts ==
    [][\A c \in Clients :
          (/\ emPc[c] = "check"
           /\ emPc'[c] # "check"
           /\ emCall[c].editing.id # 0
           /\ Triple(emCall[c].values) = Triple(emCall[c].editing)
           /\ \E r \in emRows : r.id = emCall[c].editing.id /\ Triple(r) = Triple(emCall[c].values)
           /\ ~EmOtherRowHasTriple(emRows, emCall[c].values, emCall[c].editing)
           /\ "No se pudo validar el registro" \notin Range(emToast'[c]))
          => /\ emPc'[c] = "write"
             /\ emCall'[c] = emCall[c]]_vars

\* C3, its case: the update of an edit with the row's own triple is awaiting
\* the store, the row still being in the table with that triple
SelfExclusionAcceptsWitness ==
    \E c \in Clients :
        /\ emPc[c] = "write"
        /\ emCall[c].editing.id # 0
        /\ Triple(emCall[c].values) = Triple(emCall[c].editing)
        /\ \E r \in emRows : r.id = emCall[c].editing.id /\ Triple(r) = Triple(emCall[c].values)

\* C4: the write that follows a passed duplicate check is unconditional: an
\* update that succeeds gives its row the submitted triple whatever the other
\* rows carry by then, and changes no other row; nothing is checked again
\* between the count query and the write.
WriteAfterCheckUnconditional ==
    [][\A c \in Clients :
          (/\ emPc[c] = "write"
           /\ emPc'[c] # "write"
           /\ emToast'[c] = <<"Relacion actualizada">>)
          => /\ \E r \in emRows' :
                  r.id = emCall[c].editing.id /\ Triple(r) = Triple(emCall[c].values)
             /\ \A r \in emRows : r.id # emCall[c].editing.id => r \in emRows'
             /\ Cardinality(emRows') = Cardinality(emRows)]_vars

\* C4, its case: two sessions submitted the same triple for two rows, both
\* updates succeeded, and the table holds two rows with that triple
DuplicateTripleAfterRace ==
    /\ \A c \in Clients : emPc[c] = "idle" /\ emToast[c] = <<"Relacion actualizada">>
    /\ \E r, q \in emRows : r.id # q.id /\ Triple(r) = Triple(q)

(***************************************************************************)
(* Properties of ExercisePage.                                             *)
(***************************************************************************)
\* the join rows of table t for exercise e are exactly one row per id of S
ExJoinIsExactly(join, t, e, S) ==
    \A v \in ExValueIds(t) : join[t][e][v] = IF v \in S THEN 1 ELSE 0

\* the syncRelation call of session c on table t has just resolved
ExSyncEnds(c, t) == exSync[c][t] \in {"delete", "insert"} /\ exSync'[c][t] = "done"

\* C5: with one session writing, when a syncRelation call resolves and
\* neither of its store calls failed, the join rows of the table for the
\* exercise are exactly one row per submitted id, whatever rows were there
\* before; with no id submitted the call resolves after its delete, without
\* an insert, and the exercise has no join row in the table.
SyncRelationReplacesAll ==
    [][\A c \in Clients : \A t \in ExTables :
          /\ (/\ ExSyncEnds(c, t)
              /\ <<t, "delete">> \notin exFailed'[c]
              /\ <<t, "insert">> \notin exFailed'[c])
             => ExJoinIsExactly(exJoin', t, exCall[c].id, exCall[c].values[t])
          /\ (/\ exSync[c][t] = "delete"
              /\ exSync'[c][t] # "delete"
              /\ exCall[c].values[t] = {})
             => exSync'[c][t] = "done"
          /\ (exSync[c][t] = "delete" /\ exSync'[c][t] = "insert")
             => exCall[c].values[t] # {}]_vars

\* C5, its case: the equipment sync of exercise 1, which had equipment 1, has
\* resolved for the submitted set {2} and the table holds exactly that row
SyncRelationReplacesAllWitness ==
    \E c \in Clients :
        /\ exPc[c] = "reload"
        /\ exFailed[c] = {}
        /\ exCall[c].id = 1
        /\ exCall[c].values["exercise_equipment"] = {2}
        /\ ExJoinIsExactly(exJoin, "exercise_equipment", 1, {2})

\* C6: when the delete of a syncRelation call succeeded and its insert
\* fails, the exercise is left with no row in that join table, and submit goes
\* on as after a success: it waits for the other syncs, reloads the list and
\* closes the dialog.
SyncRelationNoRollback ==
    [][\A c \in Clients :
          /\ \A t \in ExTables :
                (/\ exSync[c][t] = "insert"
                 /\ exSync'[c][t] = "done"
                 /\ <<t, "delete">> \notin exFailed'[c]
                 /\ <<t, "insert">> \in exFailed'[c])
                => /\ ExJoinIsExactly(exJoin', t, exCall[c].id, {})
                   /\ exPc'[c] = IF ExAllDone(exSync'[c]) THEN "reload" ELSE "sync"
          /\ (exPc[c] = "reload" /\ exPc'[c] # "reload")
             => ~exOpen'[c] /\ exEditing'[c] = ExNull /\ exPc'[c] = "idle"]_vars

\* C6, its case: exercise 1 had equipment 1; the sync's delete succeeded, its
\* insert failed, the table holds no equipment of exercise 1 and submit is
\* reloading the list
SyncRelationNoRollbackWitness ==
    \E c \in Clients :
        /\ exPc[c] = "reload"
        /\ exCall[c].id = 1
        /\ exCall[c].values["exercise_equipment"] # {}
        /\ exFailed[c] = {<<"exercise_equipment", "insert">>}
        /\ ExJoinIsExactly(exJoin, "exercise_equipment", 1, {})

\* C7: the two store calls of syncRelation act on whatever the table holds
\* when they run: a delete that succeeds removes every row of the exercise,
\* another session's included, and an insert that succeeds adds one row per
\* submitted id to the rows that are there.
SyncRelationStepsUnconditional ==
    [][\A c \in Clients : \A t \in ExTables :
          /\ (/\ exSync[c][t] = "delete"
              /\ exSync'[c][t] # "delete"
              /\ <<t, "delete">> \notin exFailed'[c])
             => ExJoinIsExactly(exJoin', t, exCall[c].id, {})
          /\ (/\ exSync[c][t] = "insert"
              /\ exSync'[c][t] = "done"
              /\ <<t, "insert">> \notin exFailed'[c])
             => \A v \in ExValueIds(t) :
                   exJoin'[t][exCall[c].id][v] =
                      exJoin[t][exCall[c].id][v]
                      + (IF v \in exCall[c].values[t] THEN 1 ELSE 0)]_vars

\* C7, its case: two sessions synced the equipment of one exercise to
\* different sets, no store call failed, both syncs have resolved, and the
\* table's rows for the exercise are neither the one set nor the other
SyncRelationRaceWitness ==
    /\ exFaults = 0
    /\ \A c \in Clients : exPc[c] = "reload"
    /\ exCall[1].id = exCall[2].id
    /\ exCall[1].values["exercise_equipment"] # exCall[2].values["exercise_equipment"]
    /\ \A c \in Clients :
          ~ExJoinIsExactly(exJoin, "exercise_equipment", exCall[c].id,
                           exCall[c].values["exercise_equipment"])

\* C11: onDelete issues the delete of the exercise row only when its three
\* association deletes have all resolved, and an exercise row leaves the table
\* only by that delete, issued after them.
CascadeDeleteOrdering ==
    [][/\ \A c \in Clients :
             exPc'[c] = "delete_exercise"
             => \A t \in ExTables : exSync'[c][t] = "done"
       /\ \A e \in exExercises \ exExercises' :
             \E c \in Clients :
                /\ exPc[c] = "delete_exercise"
                /\ exCall[c].id = e
                /\ \A t \in ExTables : exSync[c][t] = "done"]_vars

\* C11, its case: the three association deletes of exercise 1 have resolved
\* and removed its rows, and the delete of the exercise row is awaiting the store
CascadeDeleteOrderingWitness ==
    \E c \in Clients :
        /\ exPc[c] = "delete_exercise"
        /\ exCall[c].id = 1
        /\ 1 \in exExercises
        /\ exFailed[c] = {}
        /\ \A t \in ExTables : ExJoinIsExactly(exJoin, t, 1, {})

\* C12: when an association delete of onDelete has failed, onDelete still
\* issues the delete of the exercise row once the three have resolved; the
\* delete of the exercise row leaves the join tables as the association
\* deletes left them, whether it succeeds or not.
CascadeDeleteUnguarded ==
    [][\A c \in Clients :
          /\ (/\ exPc[c] = "delete_relations"
              /\ ExAllDone(exSync'[c])
              /\ exFailed'[c] # {})
             => exPc'[c] = "delete_exercise"
          /\ (exPc[c] = "delete_exercise" /\ exPc'[c] # "delete_exercise")
             => /\ exJoin' = exJoin
                /\ exFaults' = exFaults => exCall[c].id \notin exExercises']_vars

\* C12, its case: the row of exercise 1 is gone and a join table still holds a
\* row that references it
OrphanedAssociationRows ==
    /\ 1 \notin exExercises
    /\ \A c \in Clients : exPc[c] \in {"idle", "load"}
    /\ \E t \in ExTables : \E v \in ExValueIds(t) : exJoin[t][1][v] > 0

\* C9: when the store answers the delete of the exercise row with an error,
\* the session's list keeps the record.
DeleteErrorKeepsRecord ==
    [][\A c \in Clients :
          (/\ exPc[c] = "delete_exercise"
           /\ exPc'[c] # "delete_exercise"
           /\ exFaults' > exFaults)
          => exRecords'[c] = exRecords[c]]_vars

\* C10: when a load of the list, the reload at the end of a submit included,
\* is answered with an error, the session's list stays as it was.
LoadErrorKeepsList ==
    [][\A c \in Clients :
          (/\ exPc[c] \in {"load", "reload"}
           /\ exPc'[c] = "idle"
           /\ exFaults' > exFaults)
          => exRecords'[c] = exRecords[c]]_vars

(***************************************************************************)
(* Properties of EquipmentPage.                                            *)
(***************************************************************************)
\* C8: when the store answers the insert or update of a submit with an
\* error, the dialog stays as it was and the list is unchanged.
SubmitErrorKeepsDialog ==
    [][(eqPc = "write" /\ eqPc' # "write" /\ eqError')
       => (eqOpen' = eqOpen /\ eqItems' = eqItems)]_vars

\* every call of the muscle-subgroup page has resolved
MsQuiescent == msLoad.st = "done" /\ msSubmit.st = "idle" /\ msDel.st = "idle"

\* C13: operations in flight on one page are not serialized, and the list is
\* whatever the last answer to arrive makes of it: an answer of loadSubgroups
\* replaces the list with the rows the store held when it executed the
\* select, whatever has happened to the list or the table since, while as
\* long as no handler was started during another call, and no call failed,
\* the list equals the table once every call has resolved.
UnserializedLastResolvedWins ==
    /\ [](MsQuiescent /\ ~msOverlap /\ msFaults = 0 => msRecords = SortByName(msRows))
    /\ [][/\ (msSubmit.st = "load_answered" /\ msSubmit'.st = "idle")
             => msRecords' = msSubmit.data
          /\ (msLoad.st = "answered" /\ msLoad'.st = "done")
             => msRecords' = msLoad.data]_vars

\* C13, its case: every call has resolved, none has failed, and the list shows
\* a record the table no longer holds (the answer of submit's reload, fixed
\* before the delete ran, arrived after onDelete had filtered the list)
StaleReloadRestoresDeletedRecord ==
    /\ MsQuiescent
    /\ msFaults = 0
    /\ msOps = 2
    /\ \E i \in 1..Len(msRecords) : msRecords[i].id \notin {r.id : r \in msRows}

\* C14: after a successful create on the muscle page the list is the new
\* record followed by the previous list, unchanged and in its previous order;
\* the record carries the id the store assigned and the submitted name, and
\* that id occurs once in the list.
CreatePrependsStoreRow ==
    [][(muPc = "write" /\ muCall.editing.id = 0 /\ muRows' # muRows)
       => /\ Len(muRecords') = Len(muRecords) + 1
          /\ Tail(muRecords') = muRecords
          /\ Head(muRecords').id = muNextId
          /\ Head(muRecords') \in muRows' \ muRows
          /\ Head(muRecords').name = muCall.name
          /\ Cardinality({i \in 1..Len(muRecords') : muRecords'[i].id = muNextId}) = 1]_vars

\* C14, its case: a create has succeeded on a list that already showed two
\* records
CreatePrependsStoreRowWitness ==
    /\ muPc = "idle"
    /\ muToast = "Musculo creado."
    /\ Len(muRecords) = 3
    /\ muRecords[1].id = 3
    /\ muRecords[1].name = "bb"

\* C15: after a successful update on the exercise-muscle page the list has
\* the same length and order: the entry with the edited record's id keeps
\* its id and shows the submitted exercise, muscle and role, and every other
\* entry is unchanged.
UpdatePatchesInPlace ==
    [][\A c \in Clients :
          (/\ emPc[c] = "write"
           /\ emCall[c].editing.id # 0
           /\ emToast'[c] = <<"Relacion actualizada">>)
          => /\ Len(emRecords'[c]) = Len(emRecords[c])
             /\ \A i \in 1..Len(emRecords[c]) :
                  IF emRecords[c][i].id = emCall[c].editing.id
                    THEN /\ emRecords'[c][i].id = emCall[c].editing.id
                         /\ Triple(emRecords'[c][i]) = Triple(emCall[c].values)
                    ELSE emRecords'[c][i] = emRecords[c][i]]_vars

\* C15, its case: an update has succeeded on a list of two records, the
\* second of which now shows the submitted values while the table row of the
\* first differs from them
UpdatePatchesInPlaceWitness ==
    \E c \in Clients :
        /\ emPc[c] = "idle"
        /\ emToast[c] = <<"Relacion actualizada">>
        /\ Len(emRecords[c]) = 2
        /\ Triple(emRecords[c][1]) # Triple(emRecords[c][2])
        /\ \E r \in emRows : r.id = emRecords[c][2].id /\ Triple(r) = Triple(emRecords[c][2])

\* the last page of a session's filtered list, as the footer shows it
EmLastPage(records, query) == TotalPages(EmFiltered(records, query), PAGE_SIZE)

\* C16: after a successful delete the deleted record is absent from the
\* list, the other records are all there in their previous order, the delete
\* dialog is dismissed, and a page number beyond the last page of the
\* filtered list is brought down to that last page (any other stays).
DeleteRemovesAndClamps ==
    [][\A c \in Clients :
          (emPc[c] = "delete" /\ emToast'[c] = <<"Relacion eliminada">>)
          => LET id == emCall[c].toDelete.id
                 others == {i \in 1..Len(emRecords[c]) : emRecords[c][i].id # id}
                 last == EmLastPage(emRecords'[c], emQuery'[c])
             IN /\ \A i \in 1..Len(emRecords'[c]) : emRecords'[c][i].id # id
                /\ emRecords'[c] = SeqFilter(emRecords[c], others)
                /\ emToDelete'[c] = EmNull
                /\ emPage'[c] = IF emPage[c] > last THEN last ELSE emPage[c]]_vars

\* C16, its case: the only record of page 2 has been deleted and the page is 1
DeleteRemovesAndClampsWitness ==
    \E c \in Clients :
        /\ emPc[c] = "idle"
        /\ emToast[c] = <<"Relacion eliminada">>
        /\ Len(emRecords[c]) = PAGE_SIZE
        /\ \A i \in 1..Len(emRecords[c]) : emRecords[c][i].id # PAGE_SIZE + 1
        /\ emQuery[c] = <<>>
        /\ emPage[c] = 1

\* C17: whatever the session has done, between two steps the page p is at
\* least 1 and at most max(1, ceil(|filtered| / PAGE_SIZE)), and the page on
\* screen shows a record whenever the filtered list has one.
PageNumberInRange ==
    \A c \in Clients :
        /\ 1 <= emPage[c]
        /\ emPage[c] <= EmLastPage(emRecords[c], emQuery[c])
        /\ EmFiltered(emRecords[c], emQuery[c]) # <<>> => EmOnScreen(c) # <<>>

\* C17, its case: a query that keeps fewer records than the list holds is in
\* the box of a list that has lost a record, and the page is the last one
PageNumberInRangeWitness ==
    \E c \in Clients :
        /\ emQuery[c] = <<"A", "b", " ">>
        /\ Len(emRecords[c]) = PAGE_SIZE
        /\ Len(EmFiltered(emRecords[c], emQuery[c])) = PAGE_SIZE - 1
        /\ emOps = 1
        /\ emPage[c] = 1

\* C18: a step that changes the text of the search box leaves the page at 1,
\* whatever the page was and whether or not the filtered list changes.
QueryChangeResetsPage ==
    [][\A c \in Clients : emQuery'[c] # emQuery[c] => emPage'[c] = 1]_vars

\* C18, its case: white space has been typed into the box of a list of two
\* pages, which filters nothing out, and the page is 1
QueryChangeResetsPageWitness ==
    \E c \in Clients :
        /\ emQuery[c] = <<" ">>
        /\ EmLastPage(emRecords[c], emQuery[c]) = 2
        /\ EmFiltered(emRecords[c], emQuery[c]) = emRecords[c]
        /\ emPage[c] = 1

\* the least n with n * size >= len: ceil(len / size)
Ceiling(len, size) == CHOOSE n \in 0..len : n * size >= len /\ (n = 0 \/ (n - 1) * size < len)

\* the pages 1..n of F, one after the other
RECURSIVE ConcatPages(_, _, _)
ConcatPages(F, size, n) ==
    IF n = 0 THEN <<>> ELSE ConcatPages(F, size, n - 1) \o Paginated(F, n, size)

\* a rendered page, the page count aside: the slice of
\* page k is F[(k-1)P .. kP-1] (0-based, cut at the end of F), it has at most
\* P rows and exactly P unless it is the last page, and the pages
\* 1..totalPages one after the other are F
PgSlicesPartition ==
    LET lo == (pgPage - 1) * pgSize
        hi == IF pgPage * pgSize < Len(pgF) THEN pgPage * pgSize ELSE Len(pgF)
    IN /\ Len(pgSlice) = (IF hi > lo THEN hi - lo ELSE 0)
       /\ \A i \in 1..Len(pgSlice) : pgSlice[i] = pgF[lo + i]
       /\ Len(pgSlice) <= pgSize
       /\ pgPage < pgTotal => Len(pgSlice) = pgSize
       /\ ConcatPages(pgF, pgSize, pgTotal) = pgF

\* C19, as amended: pagination partitions the filtered list F with page
\* size P: the page-k slice is F[(k-1)P .. kP-1], every page has at most P
\* rows and every page but the last exactly P, the pages 1..totalPages one
\* after the other are F, and totalPages is ceil(|F|/P) when F has a row and
\* 1, a single empty page, when F is empty.
PaginationPartitions ==
    pgPage >= 1
    => /\ PgSlicesPartition
       /\ pgTotal = IF pgF = <<>> THEN 1 ELSE Ceiling(Len(pgF), pgSize)

\* C19, its case: page 2 of a list of five rows, three to a page, is the
\* last one and shows the two rows left
PaginationPartitionsWitness ==
    /\ pgPage = 2
    /\ pgSize = 3
    /\ Len(pgF) = 5
    /\ pgSlice = <<4, 5>>
    /\ pgTotal = 2

\* C19, as stated: the same, with totalPages equal to ceil(|F|/P) for every F
PaginationTotalIsCeiling ==
    pgPage >= 1
    => /\ PgSlicesPartition
       /\ pgTotal = Ceiling(Len(pgF), pgSize)

\* the designated display fields of a row of the page flKind
FlFields(r) ==
    IF flKind = "users" THEN {r.name, r.email}
    ELSE {ExerciseName(r.exercise_id), MuscleName(r.muscle_id), GroupName(r.muscle_id),
          RoleText(r.role)}

\* the row has a single display field that, lower-cased, contains the
\* trimmed, lower-cased search text
FlMatches(r) == \E f \in FlFields(r) : Includes(ToLower(f), ToLower(Trim(flQuery)))

\* C20: the filtered list is a sub-sequence of the loaded rows in their
\* order; each of its rows contains the trimmed, lower-cased search text in
\* one of its display fields; every loaded row that does so is in it; and an
\* empty or white-space search text gives all the rows.
FilterMatchesOnOneField ==
    flDone
    => /\ \E kept \in SUBSET (1..Len(flRows)) : flResult = SeqFilter(flRows, kept)
       /\ \A i \in 1..Len(flResult) : FlMatches(flResult[i])
       /\ \A i \in 1..Len(flRows) : FlMatches(flRows[i]) => flRows[i] \in Range(flResult)
       /\ Trim(flQuery) = <<>> => flResult = flRows

\* rows start..end of F, numbered from 1
RowsOf(F, start, end) == [i \in 1..(end - start + 1) |-> F[start + i - 1]]

\* C21: on every rendered page the footer shows start = (p-1)*size + 1,
\* end = min(p*size, |F|) and total = |F| and the table shows exactly rows
\* start..end of F when F is non-empty (23 rows of size 10 on page 1: 1-10 of
\* 23 over 3 pages; 4 rows: page 1 of 1, 1-4 of 4), and 0-0 of 0 when F is
\* empty.  Violated by ExercisesCatalog on an empty list, which shows 1-0 of 0.
FooterMatchesRows ==
    pgPage # 0 =>
       /\ pgF # <<>> =>
             /\ pgFooter = <<(pgPage - 1) * pgSize + 1,
                             Min(pgPage * pgSize, Len(pgF)), Len(pgF)>>
             /\ pgSlice = RowsOf(pgF, pgFooter[1], pgFooter[2])
       /\ (Len(pgF) = 23 /\ pgSize = 10 /\ pgPage = 1) =>
             pgFooter = <<1, 10, 23>> /\ pgTotal = 3
       /\ (Len(pgF) = 4 /\ pgSize = 10) =>
             pgPage = 1 /\ pgTotal = 1 /\ pgFooter = <<1, 4, 4>>
       /\ pgF = <<>> => pgFooter = <<0, 0, 0>>


\* C22: form values that violate the schema (a name shorter than 2
\* characters, a group_id below 1) never reach submit: no call in flight
\* carries them and no row of the store holds them, and the press of
\* "Guardar" that the resolver rejects issues no call, leaves the store and
\* the list as they were and leaves the dialog open.
ValidationBlocksSubmit ==
    /\ [](muPc = "write" => Len(muCall.name) >= 2 /\ muCall.group_id >= 1)
    /\ [](\A r \in muRows : Len(r.name) >= 2)
    /\ [][(muErrors' # {} /\ muErrors' # muErrors) =>
            /\ muOpen /\ muOpen'
            /\ muPc = "idle" /\ muPc' = "idle"
            /\ UNCHANGED <<muRows, muNextId, muRecords, muCall, muEditing, muToast>>]_vars

\* a "Guardar" rejected for both fields, the dialog still open on the list
\* that was loaded
ValidationBlocksSubmitWitness ==
    /\ muErrors = {"name", "group_id"}
    /\ muOpen /\ muPc = "idle"
    /\ muRecords # <<>>
    /\ muRows = {[id |-> 1, name |-> "bb"]}

\* C23: whichever way the related side arrives, every page's mapper uses
\* zero or one related record, the object itself or the first element of the
\* array: a row displays the name of that record, the same for a one-element
\* array as for the object alone, and the page's fallback text when there is
\* none.  Violated by the pages that read the related side without
\* normalizing it, which show the fallback for every array.
JoinNormalized ==
    rlDone =>
       /\ rlValue.shape = "object" => rlName = rlValue.items[1].name
       /\ (rlValue.shape = "array" /\ Len(rlValue.items) >= 1) =>
             rlName = rlValue.items[1].name
       /\ (rlValue.shape = "null" \/ rlValue.items = <<>>) => rlName = RlFallback(rlKind)

\* C24: in the multi-select create form no muscle id is ever in both
\* selectedPrimaryMuscles and selectedSecondaryMuscles, and a toggle that
\* puts a muscle into one list leaves it out of the other.
SelectionsDisjoint ==
    /\ [](\A c \in Clients : Range(emSelPrimary[c]) \cap Range(emSelSecondary[c]) = {})
    /\ [][\A c \in Clients : \A m \in Muscles :
            /\ (m \in Range(emSelPrimary'[c]) /\ m \notin Range(emSelPrimary[c]))
                  => m \notin Range(emSelSecondary'[c])
            /\ (m \in Range(emSelSecondary'[c]) /\ m \notin Range(emSelSecondary[c]))
                  => m \notin Range(emSelPrimary'[c])]_vars

\* a muscle checked as secondary and then as primary is in the primary list
\* alone, next to one that stayed secondary
SelectionsDisjointWitness ==
    \E c \in Clients :
       /\ emSelPrimary[c] # <<>> /\ emSelSecondary[c] # <<>>
       /\ Len(emSelPrimary[c]) + Len(emSelSecondary[c]) = Cardinality(Muscles)

\* the rows submitMulti is to insert for a selection: one per primary muscle
\* and one per secondary muscle, as a set
EmExpectedRelations(e, primary, secondary) ==
    {[exercise_id |-> e, muscle_id |-> m, role |-> "primary"] : m \in Range(primary)}
    \cup {[exercise_id |-> e, muscle_id |-> m, role |-> "secondary"] : m \in Range(secondary)}

\* the rows of a relation list without their ids
EmWithoutIds(S) == {[exercise_id |-> r.exercise_id, muscle_id |-> r.muscle_id,
                     role |-> r.role] : r \in S}

\* C25: submitMulti with no exercise or no muscle selected issues no call and
\* leaves store, list, selections and dialog alone; otherwise its one bulk
\* insert carries exactly one primary row per selected primary muscle and one
\* secondary row per selected secondary muscle; when the insert succeeds the
\* returned rows are prepended, the dialog closes and the selections are
\* cleared, and when it fails list, selections and dialog stay as they were.
SubmitMultiContract ==
    [][\A c \in Clients :
         /\ (emPc'[c] = "multi" /\ emPc[c] # "multi") =>
               /\ emSelExercise[c] # ""
               /\ emSelPrimary[c] # <<>> \/ emSelSecondary[c] # <<>>
               /\ Range(emCall'[c].relations) =
                     EmExpectedRelations(emSelExercise[c], emSelPrimary[c], emSelSecondary[c])
               /\ Len(emCall'[c].relations) = Len(emSelPrimary[c]) + Len(emSelSecondary[c])
               /\ UNCHANGED <<emRows, emRecords, emOpen, emSelExercise, emSelPrimary,
                              emSelSecondary>>
         /\ (/\ emSelExercise[c] = "" \/ (emSelPrimary[c] = <<>> /\ emSelSecondary[c] = <<>>)
             /\ emToast'[c] # emToast[c]
             /\ emPc[c] = "idle" /\ emOpen[c] /\ emOpen'[c] /\ emEditing[c] = EmNull) =>
               /\ emPc'[c] = "idle"
               /\ UNCHANGED <<emRows, emRecords, emOpen, emSelExercise, emSelPrimary,
                              emSelSecondary, emCall>>
         /\ (emPc[c] = "multi" /\ emPc'[c] # "multi") =>
               IF emRows' # emRows
                 THEN /\ emRows \subseteq emRows'
                      /\ EmWithoutIds(emRows' \ emRows) = Range(emCall[c].relations)
                      /\ Cardinality(emRows' \ emRows) = Len(emCall[c].relations)
                      /\ Len(emRecords'[c]) = Len(emRecords[c]) + Len(emCall[c].relations)
                      /\ \A i \in 1..Len(emCall[c].relations) :
                            /\ emRecords'[c][i] \in emRows' \ emRows
                            /\ Triple(emRecords'[c][i]) = Triple(emCall[c].relations[i])
                      /\ \A i \in 1..Len(emRecords[c]) :
                            emRecords'[c][Len(emCall[c].relations) + i] = emRecords[c][i]
                      /\ ~emOpen'[c]
                      /\ emSelExercise'[c] = ""
                      /\ emSelPrimary'[c] = <<>> /\ emSelSecondary'[c] = <<>>
                 ELSE UNCHANGED <<emRecords, emOpen, emSelExercise, emSelPrimary,
                                  emSelSecondary>>]_vars

\* a bulk insert of one primary and one secondary relation has succeeded: the
\* list holds the two rows, the dialog is closed and the selections are empty
SubmitMultiContractWitness ==
    \E c \in Clients :
       /\ Len(emRecords[c]) = 2
       /\ emRecords[c][1].role = "primary" /\ emRecords[c][2].role = "secondary"
       /\ emRecords[c][1].muscle_id # emRecords[c][2].muscle_id
       /\ Range(emRecords[c]) = emRows
       /\ emToast[c] = <<"relaciones creadas">>
       /\ ~emOpen[c] /\ emSelPrimary[c] = <<>> /\ emSelSecondary[c] = <<>>

\* C26: at most one create request of the multi-select form is in flight at
\* a time.  Violated: nothing sets `saving`, the button stays enabled while
\* submitMulti awaits the store, and a second press starts a second insert.
SingleCreateInFlight ==
    \A c \in Clients : ~(emPc[c] = "multi" /\ emSecondCall[c] # <<>>)

\* C27: submitting is true from the start of the edit submit, before its
\* first store call, until the handler finishes, and false once it has
\* finished by whichever exit; a submit in progress always comes to its end,
\* so the "Guardar" button is enabled again.
SubmittingBracketsSubmit ==
    /\ [](\A c \in Clients : emSubmitting[c] <=> emPc[c] \in {"check", "write"})
    /\ \A c \in Clients : emSubmitting[c] ~> ~emSubmitting[c]

\* a submit that found its combination taken has returned: the dialog is
\* still open on the record and submitting is false again
SubmittingBracketsSubmitWitness ==
    \E c \in Clients :
       /\ emToast[c] = <<"La combinacion ya existe">>
       /\ emPc[c] = "idle" /\ ~emSubmitting[c]
       /\ emOpen[c] /\ emEditing[c] # EmNull

\* C28: when the count query of the duplicate check fails, the submission is
\* rejected as a duplicate: submit returns without an update or insert, the
\* store and the list are unchanged and the dialog stays open on the record.
DuplicateCheckFailsClosed ==
    [][\A c \in Clients :
         (/\ emPc[c] = "check" /\ emPc'[c] # "check"
          /\ Len(emToast'[c]) > 0 /\ emToast'[c][1] = "No se pudo validar el registro") =>
            /\ emPc'[c] = "idle"
            /\ emToast'[c] = <<"No se pudo validar el registro", "La combinacion ya existe">>
            /\ UNCHANGED <<emRows, emNextId, emRecords>>
            /\ emOpen[c] = emOpen'[c] /\ emEditing'[c] = emEditing[c]]_vars

\* a submit whose count query failed has returned: the dialog is open on the
\* record, the table and the list are as loaded
DuplicateCheckFailsClosedWitness ==
    \E c \in Clients :
       /\ emToast[c] = <<"No se pudo validar el registro", "La combinacion ya existe">>
       /\ emPc[c] = "idle"
       /\ emOpen[c] /\ emEditing[c] # EmNull
       /\ emRows = EmSeedRows
       /\ Range(emRecords[c]) = EmSeedRows

\* C29: the three syncRelation calls of the exercise submit start only when
\* the exercise update / insert has returned a row, and with that row's id;
\* loadExercises is issued only when all three have resolved; a failed
\* exercise write ends the submit with no join-table row touched and the
\* list not reloaded.
ExerciseSaveOrdering ==
    [][\A c \in Clients :
         /\ (exPc'[c] = "sync" /\ exPc[c] # "sync") =>
               /\ exPc[c] = "write"
               /\ exCall'[c].id \in exExercises'
               /\ exCall'[c].id = IF exCall[c].editing.id # 0 THEN exCall[c].editing.id
                                  ELSE exNextId
               /\ \A t \in ExTables : exSync'[c][t] = "delete"
               /\ UNCHANGED exJoin
         /\ (exPc[c] = "sync" /\ exJoin' # exJoin) =>
               \E t \in ExTables :
                  /\ exSync[c][t] \in {"delete", "insert"}
                  /\ \A u \in ExTables \ {t} : exJoin'[u] = exJoin[u]
                  /\ \A e \in ExIds \ {exCall[c].id} : exJoin'[t][e] = exJoin[t][e]
         /\ (exPc'[c] = "reload" /\ exPc[c] # "reload") =>
               /\ exPc[c] = "sync"
               /\ \A t \in ExTables : exSync'[c][t] = "done"
               /\ UNCHANGED exRecords
         /\ (exPc[c] = "write" /\ exPc'[c] = "idle") =>
               /\ UNCHANGED <<exJoin, exRecords, exExercises>>
               /\ exSync'[c] = exSync[c]
         /\ (exRecords'[c] # exRecords[c] /\ exPc[c] \notin {"load", "delete_exercise"}) =>
               exPc[c] = "reload"]_vars

\* a new exercise has been inserted and its three syncs have resolved, rows
\* written under the id the store returned: loadExercises is in flight
ExerciseSaveOrderingWitness ==
    \E c \in Clients :
       /\ exPc[c] = "reload"
       /\ exCall[c].editing.id = 0
       /\ exCall[c].id = 2 /\ 2 \in exExercises
       /\ \A t \in ExTables : exSync[c][t] = "done"
       /\ \A t \in ExTables : ExJoinIds(t, 2) = exCall[c].values[t]
       /\ exCall[c].values["exercise_equipment"] # {}
       /\ \A i \in 1..Len(exRecords[c]) : exRecords[c][i].id # 2

\* C30: on the exercise page, once the selection effect has run,
\* selectedExerciseId is null exactly when the records list is empty and is
\* otherwise the id of a record of the list; when the list changes, a
\* selection still in the list is kept and any other selection falls back to
\* the first record.
ExRecordIds(c) == {exRecords[c][i].id : i \in 1..Len(exRecords[c])}

SelectionFollowsRecords ==
    /\ [](\A c \in Clients :
            /\ exSelected[c] = 0 <=> exRecords[c] = <<>>
            /\ exRecords[c] # <<>> => exSelected[c] \in ExRecordIds(c))
    /\ [][\A c \in Clients :
            (exRecords'[c] # exRecords[c] /\ exRecords'[c] # <<>>) =>
                exSelected'[c] = IF exSelected[c] \in ExRecordIds(c)'
                                 THEN exSelected[c]
                                 ELSE exRecords'[c][1].id]_vars

\* exercise 1 was chosen or loaded first and then deleted: the list goes on
\* with exercise 2 and the selection has moved to it
SelectionFollowsRecordsWitness ==
    /\ exPc[1] = "idle"
    /\ exToDelete[1] = ExNull
    /\ 1 \notin exExercises
    /\ exRecords[1] # <<>>
    /\ exRecords[1][1].id = 2
    /\ exSelected[1] = 2

=============================================================================
